---- MODULE Spec2Model ----
(***************************************************************************)
(* A model of the PayPal payment-redirection proxy: the order and payment  *)
(* entities, the anonymization transform, the four flows (redirect,        *)
(* return, cancel, webhook) with the HTTP handlers in front of them, and   *)
(* the two WooCommerce stores they talk to.                                *)
(*                                                                         *)
(* Conventions.  Text that the code inspects character by character        *)
(* (query parameters, ids, decimal amounts) is a sequence of one-character *)
(* strings; text that is only compared or copied is a TLA+ string.         *)
(* A float64 amount is an integer number of hundredths.                    *)
(***************************************************************************)
EXTENDS Integers, Sequences, FiniteSets, TLC

VARIABLES
    magic,      \* source store (MagicSpore): the order it holds, in API format
    oitam,      \* processing store (OITAM): the proxy orders created so far
    req,        \* the request being answered (the last one handled)
    resp,       \* the answer to it
    result,     \* what the use case returned to the handler, if it was run
    calls,      \* the store-client calls made while handling it, in order
    paymentRepo, \* the PaymentRepository the return use case was built with
    webhookSecret, \* the configured webhook secret
    anonIn,     \* input of the direct ToAnonymousOrder applications
    anonOut,    \* their results
    retry,      \* the run of executeWithRetry under way: its loop variables
    flights,    \* the redirect requests in flight at once, each at its own step
    money,      \* operands of a direct Money.Add application, and its result
    served      \* a request under the Timeout middleware: both goroutines, the writer

vars == <<magic, oitam, req, resp, result, calls, paymentRepo, webhookSecret, anonIn, anonOut,
          retry, flights, money, served>>

(***************************************************************************)
(* Bounds of the model.                                                    *)
(***************************************************************************)
MaxProxyOrders == 2     \* proxy orders the processing store may hold
MaxClock == 2           \* distinct readings of time.Now()

Clock == 1..MaxClock

(***************************************************************************)
(* Text helpers.                                                           *)
(***************************************************************************)
Digits == <<"0", "1", "2", "3", "4", "5", "6", "7", "8", "9">>

DigitSet == {Digits[i] : i \in 1..10}

Letters == {"a", "b", "c", "d", "e", "f", "g", "h", "i", "j", "k", "l", "m",
            "n", "o", "p", "q", "r", "s", "t", "u", "v", "w", "x", "y", "z",
            "A", "B", "C", "D", "E", "F", "G", "H", "I", "J", "K", "L", "M",
            "N", "O", "P", "Q", "R", "S", "T", "U", "V", "W", "X", "Y", "Z"}

DigitVal(c) == (CHOOSE i \in 1..10 : Digits[i] = c) - 1

\* fmt.Sprintf("%d", n) for n >= 0
RECURSIVE Itoa(_)
Itoa(n) == IF n < 10 THEN <<Digits[n + 1]>>
           ELSE Itoa(n \div 10) \o <<Digits[(n % 10) + 1]>>

\* the longest run of decimal digits that starts the text
RECURSIVE DigitPrefix(_)
DigitPrefix(s) == IF s # <<>> /\ Head(s) \in DigitSet
                  THEN <<Head(s)>> \o DigitPrefix(Tail(s))
                  ELSE <<>>

RECURSIVE DigitsValue(_)
DigitsValue(s) == IF s = <<>> THEN 0
                  ELSE 10 * DigitsValue(SubSeq(s, 1, Len(s) - 1)) + DigitVal(s[Len(s)])

\* hundredths denoted by a fraction's digits (the model's amounts carry at
\* most two decimals)
FractionCents(f) == IF f = <<>> THEN 0
                    ELSE IF Len(f) = 1 THEN 10 * DigitVal(f[1])
                    ELSE 10 * DigitVal(f[1]) + DigitVal(f[2])

\* Scan a decimal number  [-]digits[.digits]  off the front of the text:
\* ok is FALSE when no number starts the text, rest is what follows it.
\* int is the run of digits before the point, after the text that follows it.
ScanFraction(neg, int, after) ==
    LET dot   == after # <<>> /\ Head(after) = "."
        frac  == IF dot THEN DigitPrefix(Tail(after)) ELSE <<>>
        mag   == 100 * DigitsValue(int) + FractionCents(frac)
    IN  [ok    |-> int # <<>>,
         cents |-> IF neg THEN 0 - mag ELSE mag,
         rest  |-> IF dot THEN SubSeq(after, Len(frac) + 2, Len(after)) ELSE after]

ScanUnsigned(neg, body) ==
    ScanFraction(neg, DigitPrefix(body),
                 SubSeq(body, Len(DigitPrefix(body)) + 1, Len(body)))

ScanDecimal(s) ==
    ScanUnsigned(s # <<>> /\ Head(s) = "-",
                 IF s # <<>> /\ Head(s) = "-" THEN Tail(s) ELSE s)

\* a scan stands for the whole text only when nothing follows the number
WholeText(r) ==
    [ok |-> r.ok /\ r.rest = <<>>, cents |-> IF r.ok /\ r.rest = <<>> THEN r.cents ELSE 0]

\* strconv.ParseFloat(s, 64): the whole text must be a number
ParseFloat(s) == WholeText(ScanDecimal(s))

(***************************************************************************)
(* Entities: internal/domain/entities/order.go                             *)
(***************************************************************************)

OrderStatuses == {"pending", "processing", "on-hold", "completed",
                  "cancelled", "refunded", "failed"}

Money(amount, currency) == [Amount |-> amount, Currency |-> currency]

\* the zero value entities.Money{}
ZeroMoney == Money(0, "")

Address(first, last, company, a1, a2, city, state, postcode, country, email, phone) ==
    [FirstName |-> first, LastName |-> last, Company |-> company,
     Address1 |-> a1, Address2 |-> a2, City |-> city, State |-> state,
     Postcode |-> postcode, Country |-> country, Email |-> email, Phone |-> phone]

MetaData(key, value) == [Key |-> key, Value |-> value]

\* IsPaymentCompleted, with a status dropped from the list
IsPaymentCompletedNoOnHold(o) == o.Status \in {"completed", "processing"}

IsPaymentCompleted(o) == o.Status \in {"completed", "processing", "on-hold"}

CanBeProcessed(o) == o.Status = "pending" /\ o.Total.Amount > 0

\* fmt.Sprintf("Item %d", index)
formatGenericItemName(index) == <<"I", "t", "e", "m", " ">> \o Itoa(index)

\* anonymizeLineItems numbering the items from 0
anonymizeLineItemsZeroBased(o) ==
    [i \in 1..Len(o.LineItems) |->
        [Name        |-> formatGenericItemName(i - 1),
         ProductID   |-> 0,
         VariationID |-> 0,
         Quantity    |-> o.LineItems[i].Quantity,
         SKU         |-> o.LineItems[i].SKU,
         Price       |-> o.LineItems[i].Price,
         Subtotal    |-> o.LineItems[i].Subtotal,
         Total       |-> o.LineItems[i].Total,
         ID          |-> 0,
         MetaData    |-> <<>>]]

\* anonymizeLineItems that keeps the product reference of an item
anonymizeLineItemsKeepingProduct(o) ==
    [i \in 1..Len(o.LineItems) |->
        [Name        |-> formatGenericItemName(i),
         ProductID   |-> o.LineItems[i].ProductID,
         VariationID |-> 0,
         Quantity    |-> o.LineItems[i].Quantity,
         SKU         |-> o.LineItems[i].SKU,
         Price       |-> o.LineItems[i].Price,
         Subtotal    |-> o.LineItems[i].Subtotal,
         Total       |-> o.LineItems[i].Total,
         ID          |-> 0,
         MetaData    |-> <<>>]]

anonymizeLineItems(o) ==
    [i \in 1..Len(o.LineItems) |->
        [Name        |-> formatGenericItemName(i),
         ProductID   |-> 0,
         VariationID |-> 0,
         Quantity    |-> o.LineItems[i].Quantity,
         SKU         |-> o.LineItems[i].SKU,
         Price       |-> o.LineItems[i].Price,
         Subtotal    |-> o.LineItems[i].Subtotal,
         Total       |-> o.LineItems[i].Total,
         ID          |-> 0,
         MetaData    |-> <<>>]]

\* a ToAnonymousOrder that numbers the proxy order by the clock
ToAnonymousOrderStamped(o, now) ==
    [ID                 |-> 0,
     Number             |-> o.Number \o Itoa(now),
     Status             |-> "pending",
     Currency           |-> o.Currency,
     Total              |-> o.Total,
     PaymentMethod      |-> "paypal",
     PaymentMethodTitle |-> "PayPal",
     TransactionID      |-> <<>>,
     DateCreated        |-> now,
     OrderKey           |-> <<>>,
     CustomerNote       |-> "",
     Billing            |-> Address("Customer", "Order", "", "Private", "", "Private", "",
                                    "00000", o.Billing.Country, "noreply@oitam.com", ""),
     Shipping           |-> Address("Customer", "Order", "", "Private", "", "Private", "",
                                    "00000", o.Shipping.Country, "", ""),
     LineItems          |-> anonymizeLineItems(o),
     ShippingLines      |-> o.ShippingLines,
     FeeLines           |-> o.FeeLines,
     TaxLines           |-> o.TaxLines,
     CouponLines        |-> <<>>,
     MetaData           |-> <<MetaData("_original_order_id", o.ID),
                              MetaData("_proxy_order", "true")>>]

\* ToAnonymousOrder; now is the reading of time.Now()
ToAnonymousOrder(o, now) ==
    [ID                 |-> 0,
     Number             |-> o.Number,
     Status             |-> "pending",
     Currency           |-> o.Currency,
     Total              |-> o.Total,
     PaymentMethod      |-> "paypal",
     PaymentMethodTitle |-> "PayPal",
     TransactionID      |-> <<>>,
     DateCreated        |-> now,
     OrderKey           |-> <<>>,
     CustomerNote       |-> "",
     Billing            |-> Address("Customer", "Order", "", "Private", "", "Private", "",
                                    "00000", o.Billing.Country, "noreply@oitam.com", ""),
     Shipping           |-> Address("Customer", "Order", "", "Private", "", "Private", "",
                                    "00000", o.Shipping.Country, "", ""),
     LineItems          |-> anonymizeLineItems(o),
     ShippingLines      |-> o.ShippingLines,
     FeeLines           |-> o.FeeLines,
     TaxLines           |-> o.TaxLines,
     CouponLines        |-> <<>>,
     MetaData           |-> <<MetaData("_original_order_id", o.ID),
                              MetaData("_proxy_order", "true")>>]

(***************************************************************************)
(* The orders the model draws its inputs from.                             *)
(***************************************************************************)
MaxItems == 2           \* line items of an order

ItemA == [ID |-> 11, Name |-> <<"T", "e", "a">>, ProductID |-> 501, VariationID |-> 7,
          Quantity |-> 2, SKU |-> "SKU-A", Price |-> Money(500, "USD"),
          Subtotal |-> Money(1000, "USD"), Total |-> Money(1000, "USD"),
          MetaData |-> <<MetaData("_gift", "yes")>>]

ItemB == [ID |-> 12, Name |-> <<"M", "u", "g">>, ProductID |-> 502, VariationID |-> 0,
          Quantity |-> 1, SKU |-> "SKU-B", Price |-> Money(999, "USD"),
          Subtotal |-> Money(999, "USD"), Total |-> Money(999, "USD"),
          MetaData |-> <<>>]

ItemLists == UNION {[1..n -> {ItemA, ItemB}] : n \in 0..MaxItems}

CustomerBilling(country) ==
    Address("Jan", "Kowalski", "ACME", "Dluga 1", "m. 2", "Gdansk", "PM",
            "80-001", country, "jan@example.com", "+48123")

CustomerShipping ==
    Address("Anna", "Nowak", "", "Krotka 5", "", "Berlin", "BE",
            "10115", "DE", "", "")

\* an order entity as the source store's data yields it
EntityOrder(status, amount, currency, items, coupons, country) ==
    [ID                 |-> 123,
     Number             |-> <<"1", "2", "3">>,
     Status             |-> status,
     Currency           |-> currency,
     Total              |-> Money(amount, currency),
     PaymentMethod      |-> "bacs",
     PaymentMethodTitle |-> "Bank transfer",
     TransactionID      |-> <<>>,
     DateCreated        |-> 0,
     OrderKey           |-> <<"k", "1", "2", "3">>,
     CustomerNote       |-> "ring twice",
     Billing            |-> CustomerBilling(country),
     Shipping           |-> CustomerShipping,
     LineItems          |-> items,
     ShippingLines      |-> <<[ID |-> 21, MethodID |-> "flat_rate",
                               MethodTitle |-> "Flat rate", Total |-> Money(0, "USD"),
                               MetaData |-> <<>>]>>,
     FeeLines           |-> <<>>,
     TaxLines           |-> <<>>,
     CouponLines        |-> coupons,
     MetaData           |-> <<>>]

EntityOrders ==
    {EntityOrder(st, amt, "USD", items, coupons, country) :
        st \in OrderStatuses, amt \in {0, 1999}, items \in ItemLists,
        coupons \in {<<>>, <<[ID |-> 31, Code |-> "SUMMER", Discount |-> Money(100, "USD"),
                               DiscountTax |-> Money(0, "USD"), MetaData |-> <<>>]>>},
        country \in {"PL", "US"}}

(***************************************************************************)
(* Direct applications of the anonymization transform.                     *)
(***************************************************************************)
MaxApplications == 2    \* applications of ToAnonymousOrder to one input

NoRequest == [kind |-> "none"]
NoResponse == [kind |-> "none"]

InitAnon ==
    /\ anonIn \in EntityOrders
    /\ anonOut = <<>>
    /\ magic = [present |-> FALSE]
    /\ oitam = <<>>
    /\ req = NoRequest
    /\ resp = NoResponse
    /\ result = NoResponse
    /\ calls = <<>>
    /\ paymentRepo = "nil"
    /\ webhookSecret = "default-webhook-secret"
    /\ retry = [state |-> "none"]
    /\ flights = <<>>
    /\ money = [state |-> "none"]
    /\ served = [state |-> "none"]

ApplyToAnonymousOrder ==
    /\ Len(anonOut) < MaxApplications
    /\ \E now \in Clock :
        /\ \A i \in 1..Len(anonOut) : anonOut[i].DateCreated <= now
        /\ anonOut' = Append(anonOut, ToAnonymousOrder(anonIn, now))
    /\ UNCHANGED <<magic, oitam, req, resp, result, calls, paymentRepo, webhookSecret, anonIn,
                   retry, flights, money, served>>

SpecAnon == InitAnon /\ [][ApplyToAnonymousOrder]_vars

\* C1: for every source order with N line items ToAnonymousOrder returns
\* exactly N line items in the original order; the i-th is named "Item i",
\* has no product or variation reference, and keeps the i-th source item's
\* SKU, quantity, price, subtotal and total; the result has no coupon lines;
\* billing and shipping country are the source's and every other address
\* field is a fixed placeholder.
C1_AnonymizedShape ==
    \A k \in 1..Len(anonOut) :
        LET src == anonIn
            out == anonOut[k]
        IN  /\ Len(out.LineItems) = Len(src.LineItems)
            /\ \A i \in 1..Len(src.LineItems) :
                /\ out.LineItems[i].Name = <<"I", "t", "e", "m", " ">> \o Itoa(i)
                /\ out.LineItems[i].ProductID = 0
                /\ out.LineItems[i].VariationID = 0
                /\ out.LineItems[i].SKU = src.LineItems[i].SKU
                /\ out.LineItems[i].Quantity = src.LineItems[i].Quantity
                /\ out.LineItems[i].Price = src.LineItems[i].Price
                /\ out.LineItems[i].Subtotal = src.LineItems[i].Subtotal
                /\ out.LineItems[i].Total = src.LineItems[i].Total
            /\ out.CouponLines = <<>>
            /\ out.Billing.Country = src.Billing.Country
            /\ out.Shipping.Country = src.Shipping.Country
            /\ [out.Billing EXCEPT !.Country = ""] =
                   Address("Customer", "Order", "", "Private", "", "Private", "",
                           "00000", "", "noreply@oitam.com", "")
            /\ [out.Shipping EXCEPT !.Country = ""] =
                   Address("Customer", "Order", "", "Private", "", "Private", "",
                           "00000", "", "", "")

\* an order with two different line items and a coupon has been anonymized
C1_Witness ==
    /\ Len(anonOut) >= 1
    /\ Len(anonIn.LineItems) = 2
    /\ anonIn.LineItems[1] # anonIn.LineItems[2]
    /\ anonIn.CouponLines # <<>>
    /\ anonOut[1].LineItems[2].SKU = anonIn.LineItems[2].SKU

(***************************************************************************)
(* WooCommerce API format and its conversions:                             *)
(* internal/infrastructure/repositories/woocommerce_repository.go          *)
(***************************************************************************)
\* Money.ToWooCommerceFormat: fmt.Sprintf("%.2f", amount)
ToWooCommerceFormat(m) ==
    LET mag == IF m.Amount < 0 THEN 0 - m.Amount ELSE m.Amount
        txt == Itoa(mag \div 100) \o <<".", Digits[((mag % 100) \div 10) + 1],
                                            Digits[(mag % 10) + 1]>>
    IN  IF m.Amount < 0 THEN <<"-">> \o txt ELSE txt

convertAddress(wcAddr) ==
    Address(wcAddr.first_name, wcAddr.last_name, wcAddr.company, wcAddr.address_1,
            wcAddr.address_2, wcAddr.city, wcAddr.state, wcAddr.postcode,
            wcAddr.country, wcAddr.email, wcAddr.phone)

convertAddressToWC(addr) ==
    [first_name |-> addr.FirstName, last_name |-> addr.LastName,
     company |-> addr.Company, address_1 |-> addr.Address1,
     address_2 |-> addr.Address2, city |-> addr.City, state |-> addr.State,
     postcode |-> addr.Postcode, country |-> addr.Country,
     email |-> addr.Email, phone |-> addr.Phone]

\* convertLineItem: ok is FALSE when one of the three amounts does not parse;
\* price, subtotal and total are the results of the three ParseFloat calls
LineItemOf(wcItem, currency, price, subtotal, total) ==
    [ok   |-> price.ok /\ subtotal.ok /\ total.ok,
     item |-> [ID          |-> wcItem.id,
               Name        |-> wcItem.name,
               ProductID   |-> wcItem.product_id,
               VariationID |-> wcItem.variation_id,
               Quantity    |-> wcItem.quantity,
               SKU         |-> wcItem.sku,
               Price       |-> Money(price.cents, currency),
               Subtotal    |-> Money(subtotal.cents, currency),
               Total       |-> Money(total.cents, currency),
               MetaData    |-> <<>>]]

convertLineItem(wcItem, currency) ==
    LineItemOf(wcItem, currency, ParseFloat(wcItem.price),
               ParseFloat(wcItem.subtotal), ParseFloat(wcItem.total))

ShippingLineOf(wcShipping, currency, total) ==
    [ok   |-> total.ok,
     line |-> [ID          |-> wcShipping.id,
               MethodID    |-> wcShipping.method_id,
               MethodTitle |-> wcShipping.method_title,
               Total       |-> Money(total.cents, currency),
               MetaData    |-> <<>>]]

convertShippingLine(wcShipping, currency) ==
    ShippingLineOf(wcShipping, currency, ParseFloat(wcShipping.total))

\* convertWooCommerceToEntity; now is the reading of time.Now() taken when
\* date_created does not parse.  Fee, tax and coupon lines and the meta data
\* are not converted.  total, items and ships are the results of the
\* conversions of the order's total, line items and shipping lines.
EntityOf(wcOrder, now, total, items, ships) ==
    [ok    |-> /\ total.ok
               /\ \A i \in 1..Len(items) : items[i].ok
               /\ \A i \in 1..Len(ships) : ships[i].ok,
     order |-> [ID                 |-> wcOrder.id,
                Number             |-> wcOrder.number,
                Status             |-> wcOrder.status,
                Currency           |-> wcOrder.currency,
                Total              |-> Money(total.cents, wcOrder.currency),
                PaymentMethod      |-> wcOrder.payment_method,
                PaymentMethodTitle |-> wcOrder.payment_method_title,
                TransactionID      |-> wcOrder.transaction_id,
                DateCreated        |-> IF wcOrder.date_created = 0 THEN now
                                       ELSE wcOrder.date_created,
                OrderKey           |-> wcOrder.order_key,
                CustomerNote       |-> wcOrder.customer_note,
                Billing            |-> convertAddress(wcOrder.billing),
                Shipping           |-> convertAddress(wcOrder.shipping),
                LineItems          |-> [i \in 1..Len(items) |-> items[i].item],
                ShippingLines      |-> [i \in 1..Len(ships) |-> ships[i].line],
                FeeLines           |-> <<>>,
                TaxLines           |-> <<>>,
                CouponLines        |-> <<>>,
                MetaData           |-> <<>>]]

convertWooCommerceToEntity(wcOrder, now) ==
    EntityOf(wcOrder, now, ParseFloat(wcOrder.total),
             [i \in 1..Len(wcOrder.line_items) |->
                 convertLineItem(wcOrder.line_items[i], wcOrder.currency)],
             [i \in 1..Len(wcOrder.shipping_lines) |->
                 convertShippingLine(wcOrder.shipping_lines[i], wcOrder.currency)])

\* convertToOITAMOrder: the body of the POST that creates the proxy order
convertToOITAMOrder(order, now) ==
    [status               |-> "pending",
     currency             |-> order.Currency,
     total                |-> ToWooCommerceFormat(order.Total),
     billing              |-> convertAddressToWC(order.Billing),
     shipping             |-> convertAddressToWC(order.Shipping),
     line_items           |->
        [i \in 1..Len(order.LineItems) |->
            [name      |-> <<"I", "t", "e", "m", " ">> \o Itoa(i),
             quantity  |-> order.LineItems[i].Quantity,
             total     |-> ToWooCommerceFormat(order.LineItems[i].Total),
             sku       |-> order.LineItems[i].SKU,
             meta_data |-> <<MetaData("_original_name", order.LineItems[i].Name),
                             MetaData("_original_product_id",
                                      order.LineItems[i].ProductID)>>]],
     payment_method       |-> "paypal",
     payment_method_title |-> "PayPal",
     meta_data            |-> <<MetaData("_original_order_number", order.Number),
                                MetaData("_proxy_order", "true"),
                                MetaData("_proxy_created_at", now)>>]

(***************************************************************************)
(* The two stores behind the WooCommerce REST client.  A store keeps, of   *)
(* an order, the fields of WooCommerceOrder that the proxy reads back.     *)
(***************************************************************************)
WCItemA == [id |-> 11, name |-> <<"T", "e", "a">>, product_id |-> 501, variation_id |-> 7,
            quantity |-> 2, sku |-> "SKU-A", price |-> <<"5", ".", "0", "0">>,
            subtotal |-> <<"1", "0", ".", "0", "0">>,
            total |-> <<"1", "0", ".", "0", "0">>,
            meta_data |-> <<MetaData("_gift", "yes")>>]

WCItemB == [id |-> 12, name |-> <<"M", "u", "g">>, product_id |-> 502, variation_id |-> 0,
            quantity |-> 1, sku |-> "SKU-B", price |-> <<"9", ".", "9", "9">>,
            subtotal |-> <<"9", ".", "9", "9">>, total |-> <<"9", ".", "9", "9">>,
            meta_data |-> <<>>]

\* an order of the source store, in API format; date_created is 0 when the
\* text does not parse as RFC 3339
MagicOrder(status, total, currency, items) ==
    [id                   |-> 123,
     number               |-> <<"1", "2", "3">>,
     status               |-> status,
     currency             |-> currency,
     total                |-> total,
     date_created         |-> 1,
     payment_method       |-> "bacs",
     payment_method_title |-> "Bank transfer",
     transaction_id       |-> <<>>,
     order_key            |-> <<"k", "1", "2", "3">>,
     customer_note        |-> "ring twice",
     billing              |-> convertAddressToWC(CustomerBilling("PL")),
     shipping             |-> convertAddressToWC(CustomerShipping),
     line_items           |-> items,
     shipping_lines       |-> <<[id |-> 21, method_id |-> "flat_rate",
                                 method_title |-> "Flat rate",
                                 total |-> <<"0", ".", "0", "0">>, meta_data |-> <<>>]>>,
     coupon_lines         |-> <<[id |-> 31, code |-> "SUMMER", discount |-> <<"1", ".", "0", "0">>]>>]

\* the orders the source store may hold when the proxy starts
MagicOrders ==
    {MagicOrder(st, <<"1", "9", ".", "9", "9">>, "USD", <<WCItemA, WCItemB>>) :
        st \in OrderStatuses}
    \cup {MagicOrder(st, <<"0", ".", "0", "0">>, "USD", <<WCItemA, WCItemB>>) :
            st \in {"pending", "on-hold"}}
    \cup {MagicOrder("pending", <<"1", "9", ".", "9", "9">>, "", <<WCItemA, WCItemB>>),
          MagicOrder("pending", <<"1", "9", ".", "9", "9">>, "USD", <<>>),
          MagicOrder("pending", <<"n", "/", "a">>, "USD", <<WCItemA>>)}

Nil == "<nil>"

\* outcome of a request to a store after executeWithRetry gave up or got an
\* answer: "fail" is a connection failure or a 5xx answer on every attempt
NetOutcomes == {"ok", "fail"}

\* the answer of a fetch whose body converted (or did not) to an entity
Fetched(c) ==
    IF c.ok THEN [err |-> Nil, order |-> c.order]
    ELSE [err |-> "failed to convert order"]

\* GET {magic}/wp-json/wc/v3/orders/{orderID}
GetMagicOrder(orderID, net, now) ==
    IF net = "fail" THEN [err |-> "API request failed"]
    ELSE IF ~magic.present \/ Itoa(magic.order.id) # orderID
         THEN [err |-> "order not found"]
    ELSE Fetched(convertWooCommerceToEntity(magic.order, now))

\* the order the processing store makes of a creation payload
OITAMStoreCreate(payload, id) ==
    [id                   |-> id,
     number               |-> Itoa(id),
     status               |-> payload.status,
     currency             |-> payload.currency,
     total                |-> payload.total,
     date_created         |-> 1,
     payment_method       |-> payload.payment_method,
     payment_method_title |-> payload.payment_method_title,
     transaction_id       |-> <<>>,
     order_key            |-> <<"w", "c", "_">> \o Itoa(id),
     customer_note        |-> "",
     billing              |-> payload.billing,
     shipping             |-> payload.shipping,
     line_items           |->
        [i \in 1..Len(payload.line_items) |->
            [id |-> i, name |-> payload.line_items[i].name, product_id |-> 0,
             variation_id |-> 0, quantity |-> payload.line_items[i].quantity,
             sku |-> payload.line_items[i].sku, price |-> payload.line_items[i].total,
             subtotal |-> payload.line_items[i].total,
             total |-> payload.line_items[i].total, meta_data |-> <<>>]],
     shipping_lines       |-> <<>>,
     coupon_lines         |-> <<>>]

\* the answer to the POST: created is the order the store made of payload,
\* c its conversion to an entity
Created(store, net, payload, created, c) ==
    IF net = "fail"
    THEN [err |-> "API request failed", store |-> store, payload |-> payload]
    ELSE IF c.ok
         THEN [err |-> Nil, order |-> c.order, store |-> Append(store, created),
               payload |-> payload]
         ELSE [err |-> "failed to convert created order",
               store |-> Append(store, created), payload |-> payload]

PostOrder(store, net, now, payload, created) ==
    Created(store, net, payload, created, convertWooCommerceToEntity(created, now))

PostPayload(store, net, now, payload) ==
    PostOrder(store, net, now, payload, OITAMStoreCreate(payload, 1000 + Len(store) + 1))

\* POST {oitam}/wp-json/wc/v3/orders; store is the processing store's orders
CreateOITAMOrder(store, order, net, now) ==
    PostPayload(store, net, now, convertToOITAMOrder(order, now))

\* GET {oitam}/wp-json/wc/v3/orders/{orderID}
FindOITAMOrder(found, net, now) ==
    IF net = "fail" THEN [err |-> "API request failed"]
    ELSE IF found = {} THEN [err |-> "order not found"]
    ELSE Fetched(convertWooCommerceToEntity(oitam[CHOOSE i \in found : TRUE], now))

GetOITAMOrder(orderID, net, now) ==
    FindOITAMOrder({i \in 1..Len(oitam) : Itoa(oitam[i].id) = orderID}, net, now)

(***************************************************************************)
(* executeWithRetry, one HTTP attempt per step.  A call of the store       *)
(* client runs the loop                                                    *)
(*     for attempt := 0; attempt <= maxRetries; attempt++                  *)
(* in which httpClient.Do is answered by a response or fails, and the      *)
(* call's response handler turns the response into an error or nil.        *)
(***************************************************************************)
MaxRetryAttempts == 3   \* largest RetryAttempts of a store configuration

\* the response handler each call hands to executeWithRetry (GetOITAMOrder's
\* is GetMagicOrder's)
ResponseHandler(op, answer) ==
    IF op = "GetMagicOrder"
    THEN IF answer.status = 404 THEN "order not found"
         ELSE IF answer.status # 200 THEN "API request failed"
         ELSE IF ~answer.decodes THEN "failed to decode order response"
         ELSE Nil
    ELSE IF op = "CreateOITAMOrder"
    THEN IF answer.status # 201 THEN "failed to create order"
         ELSE IF ~answer.decodes THEN "failed to decode created order response"
         ELSE Nil
    ELSE IF answer.status # 200 THEN "failed to update order"
         ELSE Nil

\* NextAttempt with the loop test attempt < maxRetries
NextAttemptExclusive(run) ==
    IF run.attempt + 1 < run.maxRetries
    THEN [run EXCEPT !.attempt = run.attempt + 1]
    ELSE [run EXCEPT !.state = "returned", !.err = run.lastErr]

\* the end of an iteration that did not return: attempt++ and the loop test
NextAttempt(run) ==
    IF run.attempt + 1 <= run.maxRetries
    THEN [run EXCEPT !.attempt = run.attempt + 1]
    ELSE [run EXCEPT !.state = "returned", !.err = run.lastErr]

\* AfterResponse that retries after every error
AfterResponseAlwaysRetry(run, answer, err) ==
    IF err = Nil THEN [run EXCEPT !.state = "returned", !.err = Nil]
    ELSE NextAttempt([run EXCEPT !.lastErr = err])

\* the iteration after the handler looked at the response
AfterResponse(run, answer, err) ==
    IF err = Nil THEN [run EXCEPT !.state = "returned", !.err = Nil]
    ELSE IF answer.status \in {404, 401, 403}
    THEN [run EXCEPT !.state = "returned", !.lastErr = err, !.err = err]
    ELSE NextAttempt([run EXCEPT !.lastErr = err])

\* one iteration of the loop: run is the loop state with the answer of
\* httpClient.Do logged, which is an error (connection failure, timeout) or
\* a response
Iteration(run, op, answer) ==
    IF answer.kind = "error"
    THEN IF run.attempt = run.maxRetries
         THEN [run EXCEPT !.state = "returned", !.lastErr = "HTTP request failed",
                          !.err = "HTTP request failed"]
         ELSE NextAttempt([run EXCEPT !.lastErr = "HTTP request failed"])
    ELSE AfterResponse(run, answer, ResponseHandler(op, answer))

InitRetry ==
    /\ retry \in {[state |-> "idle", maxRetries |-> n] : n \in 0..MaxRetryAttempts}
    /\ magic = [present |-> FALSE]
    /\ oitam = <<>>
    /\ req = NoRequest
    /\ resp = NoResponse
    /\ result = NoResponse
    /\ calls = <<>>
    /\ paymentRepo = "nil"
    /\ webhookSecret = "default-webhook-secret"
    /\ anonIn = <<>>
    /\ anonOut = <<>>
    /\ flights = <<>>
    /\ money = [state |-> "none"]
    /\ served = [state |-> "none"]

\* a store-client call enters executeWithRetry
StartCall ==
    /\ retry.state \in {"idle", "returned"}
    /\ \E op \in {"GetMagicOrder", "CreateOITAMOrder", "updateOrder"} :
           retry' = [state |-> "running", maxRetries |-> retry.maxRetries, op |-> op,
                     attempt |-> 0, answers |-> <<>>, lastErr |-> Nil, err |-> Nil]
    /\ UNCHANGED <<magic, oitam, req, resp, result, calls, paymentRepo, webhookSecret,
                   anonIn, anonOut, flights, money, served>>

\* one pass through the loop body: the wait before a retry ends, the request
\* is sent and answered.  The body of the POST and PUT requests is a
\* bytes.Buffer that req.Clone shares with every clone: once an attempt has
\* sent it (the store answered), httpClient.Do of a later attempt fails
\* writing the request, and nothing reaches the store.
Attempt ==
    /\ retry.state = "running"
    /\ \E answer \in {[kind |-> "response", status |-> st, decodes |-> d] :
                         st \in {200, 201, 400, 401, 403, 404, 500}, d \in BOOLEAN}
                     \cup {[kind |-> "error"]} :
           /\ (/\ retry.op \in {"CreateOITAMOrder", "updateOrder"}
               /\ \E i \in 1..Len(retry.answers) : retry.answers[i].kind = "response")
              => answer.kind = "error"
           /\ retry' = Iteration([retry EXCEPT !.answers = Append(retry.answers, answer)],
                                 retry.op, answer)
    /\ UNCHANGED <<magic, oitam, req, resp, result, calls, paymentRepo, webhookSecret,
                   anonIn, anonOut, flights, money, served>>

\* the request's context is done while the loop waits before a retry:
\* executeWithRetry returns ctx.Err()
ContextDone ==
    /\ retry.state = "running"
    /\ retry.attempt > 0
    /\ retry' = [retry EXCEPT !.state = "returned", !.err = "context canceled"]
    /\ UNCHANGED <<magic, oitam, req, resp, result, calls, paymentRepo, webhookSecret,
                   anonIn, anonOut, flights, money, served>>

SpecRetry == InitRetry /\ [][StartCall \/ Attempt \/ ContextDone]_vars

(***************************************************************************)
(* Configuration (unnamed/part_001) and URL building                       *)
(* (internal/infrastructure/http/url_builder.go).  A URL is a record of    *)
(* its base and its query parameters.                                      *)
(***************************************************************************)
SuccessURL == "https://magicspore.com/dziekujemy"
CancelURL == "https://magicspore.com/koszyk"
ErrorURL == "https://magicspore.com/blad-platnosci"
CheckoutURL == "https://oitam.com/checkout"

UrlParses(domain) == domain = "pay.oitam.com"

BuildReturnURL(domain, orderID, paymentID, status) ==
    IF ~UrlParses(domain)
    THEN [scheme |-> "https", host |-> domain, path |-> "/paypal-return",
          query |-> [order_id |-> orderID]]
    ELSE [scheme |-> "https", host |-> domain, path |-> "/paypal-return",
          query |->
            IF paymentID # <<>> /\ status # ""
            THEN [order_id |-> orderID, oitam_order_id |-> paymentID, status |-> status]
            ELSE IF paymentID # <<>>
            THEN [order_id |-> orderID, oitam_order_id |-> paymentID]
            ELSE IF status # ""
            THEN [order_id |-> orderID, status |-> status]
            ELSE [order_id |-> orderID]]

BuildCancelURL(domain, orderID) ==
    [scheme |-> "https", host |-> domain, path |-> "/paypal-cancel",
     query |-> [order_id |-> orderID]]

\* a BuildCheckoutURL that leaves the order key out
BuildCheckoutURLWithoutKey(order, returnURL, cancelURL) ==
    [base  |-> CheckoutURL,
     id    |-> order.ID,
     query |-> [pay_for_order |-> "true", key |-> <<>>,
                return_url |-> returnURL, cancel_return |-> cancelURL]]

\* the return and cancel URLs handed in are never empty here
BuildCheckoutURL(order, returnURL, cancelURL) ==
    [base  |-> CheckoutURL,
     id    |-> order.ID,
     query |-> [pay_for_order |-> "true", key |-> order.OrderKey,
                return_url |-> returnURL, cancel_return |-> cancelURL]]

(***************************************************************************)
(* Order validation: OrderDomainService                                    *)
(* (internal/domain/interfaces/services.go)                                *)
(***************************************************************************)
\* ValidateOrderForPayment without the CanBeProcessed check
ValidateOrderForPaymentAnyStatus(order) ==
    IF order.ID = 0 THEN "order ID is required"
    ELSE IF order.Total.Amount <= 0 THEN "order total must be greater than zero"
    ELSE IF IsPaymentCompleted(order) THEN "order payment is already completed"
    ELSE IF order.Currency = "" THEN "order currency is required"
    ELSE IF Len(order.LineItems) = 0 THEN "order must have at least one line item"
    ELSE Nil

\* a ValidateOrderForPayment that also refuses an order of several line items
ValidateOrderForPaymentSingleItem(order) ==
    IF order.ID = 0 THEN "order ID is required"
    ELSE IF order.Total.Amount <= 0 THEN "order total must be greater than zero"
    ELSE IF IsPaymentCompleted(order) THEN "order payment is already completed"
    ELSE IF ~CanBeProcessed(order) THEN "order cannot be processed in current status"
    ELSE IF order.Currency = "" THEN "order currency is required"
    ELSE IF Len(order.LineItems) # 1 THEN "order must have one line item"
    ELSE Nil

ValidateOrderForPayment(order) ==
    IF order.ID = 0 THEN "order ID is required"
    ELSE IF order.Total.Amount <= 0 THEN "order total must be greater than zero"
    ELSE IF IsPaymentCompleted(order) THEN "order payment is already completed"
    ELSE IF ~CanBeProcessed(order) THEN "order cannot be processed in current status"
    ELSE IF order.Currency = "" THEN "order currency is required"
    ELSE IF Len(order.LineItems) = 0 THEN "order must have at least one line item"
    ELSE Nil

CreateAnonymousOrder(originalOrder, now) ==
    LET err == ValidateOrderForPayment(originalOrder)
    IN  IF err # Nil THEN [err |-> err]
        ELSE [err |-> Nil, order |-> ToAnonymousOrder(originalOrder, now)]

(***************************************************************************)
(* PaymentRedirectUseCase.Execute (unnamed/part_006).  The result holds    *)
(* the response, the store-client calls made, and the processing store.    *)
(***************************************************************************)
\* step 6 on: the checkout URL of the created proxy order
RedirectAfterCreate(request, fetchCall, created, createCall) ==
    IF created.err # Nil
    THEN [resp |-> [err |-> "failed to create payment order", cause |-> created.err],
          calls |-> <<fetchCall, createCall>>, oitam |-> created.store]
    ELSE [resp |-> [err |-> Nil,
                    RedirectURL |->
                        BuildCheckoutURL(created.order,
                            BuildReturnURL(request.Domain, request.OrderID,
                                           Itoa(created.order.ID), "success"),
                            BuildCancelURL(request.Domain, request.OrderID)),
                    OrderID |-> request.OrderID,
                    ProxyOrderID |-> Itoa(created.order.ID),
                    Status |-> "redirect_created"],
          calls |-> <<fetchCall, createCall>>, oitam |-> created.store]

\* step 5: the proxy order is created in the processing store
RedirectCreate(request, fetchCall, created) ==
    RedirectAfterCreate(request, fetchCall, created,
                        [op |-> "CreateOITAMOrder", payload |-> created.payload,
                         err |-> created.err])

\* a step 4 that makes no second proxy order: it refuses when the processing
\* store already holds one
RedirectAfterAnonymizeOnce(request, fetchCall, anonymous, netCreate, now) ==
    IF anonymous.err # Nil \/ oitam # <<>>
    THEN [resp |-> [err |-> "failed to create anonymous order", cause |-> anonymous.err],
          calls |-> <<fetchCall>>, oitam |-> oitam]
    ELSE RedirectCreate(request, fetchCall,
                        CreateOITAMOrder(oitam, anonymous.order, netCreate, now))

\* step 4: anonymous is the result of CreateAnonymousOrder
RedirectAfterAnonymize(request, fetchCall, anonymous, netCreate, now) ==
    IF anonymous.err # Nil
    THEN [resp |-> [err |-> "failed to create anonymous order", cause |-> anonymous.err],
          calls |-> <<fetchCall>>, oitam |-> oitam]
    ELSE RedirectCreate(request, fetchCall,
                        CreateOITAMOrder(oitam, anonymous.order, netCreate, now))

\* steps 2 and 3: magicOrder is the fetched order, invalid the result of
\* ValidateOrderForPayment
RedirectAfterValidate(request, fetchCall, magicOrder, invalid, netCreate, now) ==
    IF invalid # Nil
    THEN IF IsPaymentCompleted(magicOrder)
         THEN [resp |-> [err |-> Nil,
                         RedirectURL |-> [base |-> SuccessURL,
                                          query |-> [order |-> request.OrderID,
                                                     already_paid |-> "1"]],
                         OrderID |-> request.OrderID,
                         ProxyOrderID |-> <<>>,
                         Status |-> "already_paid"],
               calls |-> <<fetchCall>>, oitam |-> oitam]
         ELSE [resp |-> [err |-> "order validation failed", cause |-> invalid],
               calls |-> <<fetchCall>>, oitam |-> oitam]
    ELSE RedirectAfterAnonymize(request, fetchCall,
                                CreateAnonymousOrder(magicOrder, now), netCreate, now)

\* step 1: fetched is the result of GetMagicOrder
RedirectAfterFetch(request, fetched, fetchCall, netCreate, now) ==
    IF fetched.err # Nil
    THEN [resp  |-> [err |-> "failed to fetch original order", cause |-> fetched.err],
          calls |-> <<fetchCall>>, oitam |-> oitam]
    ELSE RedirectAfterValidate(request, fetchCall, fetched.order,
                               ValidateOrderForPayment(fetched.order), netCreate, now)

RedirectFetch(request, fetched, netCreate, now) ==
    RedirectAfterFetch(request, fetched,
                       [op |-> "GetMagicOrder", orderID |-> request.OrderID,
                        err |-> fetched.err],
                       netCreate, now)

PaymentRedirectExecute(request, netFetch, netCreate, now) ==
    RedirectFetch(request, GetMagicOrder(request.OrderID, netFetch, now), netCreate, now)

(***************************************************************************)
(* Payments (internal/domain/entities/payment.go,                          *)
(* internal/domain/services/payment_service.go) and the writes to the      *)
(* source store.                                                           *)
(***************************************************************************)

\* CreatePaymentRecord; the generated id and the timestamps are left out,
\* nothing reads them
CreatePaymentRecord(orderID, paymentID, payerID, amount, status) ==
    [OrderID       |-> orderID,
     PaymentID     |-> paymentID,
     PayerID       |-> payerID,
     Amount        |-> amount,
     Status        |-> status,
     Method        |-> "paypal",
     TransactionID |-> paymentID]

IsCompleted(payment) == payment.Status = "completed"

\* PUT {magic}/wp-json/wc/v3/orders/{orderID} with updateData, a record of
\* the fields to change; store is the source store
updateOrder(store, orderID, updateData, net) ==
    IF net = "fail" THEN [err |-> "API request failed", store |-> store]
    ELSE IF ~store.present \/ Itoa(store.order.id) # orderID
         THEN [err |-> "failed to update order, status: 404", store |-> store]
    ELSE [err   |-> Nil,
          store |-> [store EXCEPT !.order =
                        [f \in DOMAIN store.order |->
                            IF f \in DOMAIN updateData THEN updateData[f]
                            ELSE store.order[f]]]]

updateOrderStatus(store, orderID, status, net) ==
    updateOrder(store, orderID, [status |-> status], net)

UpdateMagicOrderStatus(store, orderID, status, net) ==
    updateOrderStatus(store, orderID, status, net)

\* the body UpdateMagicOrderPayment sends.  The meta data and date_paid
\* carry time.Now(); the model's store keeps neither.
PaymentUpdateData(payment) ==
    IF IsCompleted(payment)
    THEN [payment_method |-> "paypal", payment_method_title |-> "PayPal",
          transaction_id |-> payment.TransactionID, status |-> "processing"]
    ELSE [payment_method |-> "paypal", payment_method_title |-> "PayPal",
          transaction_id |-> payment.TransactionID]

UpdateMagicOrderPayment(store, orderID, payment, net) ==
    updateOrder(store, orderID, PaymentUpdateData(payment), net)

(***************************************************************************)
(* PaymentReturnUseCase                                                    *)
(* (internal/application/usecases/payment_return_usecase.go)               *)
(***************************************************************************)
\* the TransactionID the payment record ends up with
WithTransactionID(record, request, transactionID) ==
    IF transactionID # <<>>
    THEN [record EXCEPT !.TransactionID = transactionID]
    ELSE IF request.PaymentID # <<>>
    THEN [record EXCEPT !.TransactionID = request.PaymentID]
    ELSE record

\* the two calls made with the payment record: updated is the result of
\* UpdateMagicOrderPayment
StoreAndUpdate(request, payment, updated) ==
    [panic |-> FALSE, err |-> updated.err,
     calls |-> <<[op |-> "PaymentRepository.Create", payment |-> payment],
                 [op |-> "UpdateMagicOrderPayment", orderID |-> request.OrderID,
                  payment |-> payment, err |-> updated.err]>>,
     magic |-> updated.store]

UpdateWithPayment(request, payment, netUpdate) ==
    StoreAndUpdate(request, payment,
                   UpdateMagicOrderPayment(magic, request.OrderID, payment, netUpdate))

\* updateOriginalOrderWithPayment.  repo is the PaymentRepository the use
\* case was constructed with: calling Create on a nil one panics.
updateOriginalOrderWithPayment(repo, request, transactionID, netUpdate) ==
    IF repo = "nil"
    THEN [panic |-> TRUE, err |-> "nil pointer dereference", calls |-> <<>>,
          magic |-> magic]
    ELSE UpdateWithPayment(request,
             WithTransactionID(CreatePaymentRecord(request.OrderID, request.PaymentID,
                                                   request.PayerID, ZeroMoney,
                                                   "completed"),
                               request, transactionID),
             netUpdate)

Panicked == [panic |-> TRUE]

ReturnRedirect(base, query, status) ==
    [panic |-> FALSE, err |-> Nil, RedirectURL |-> [base |-> base, query |-> query],
     Status |-> status]

\* method 1: the proxy order shows the payment completed; u is the result of
\* updateOriginalOrderWithPayment, whose error is only logged
ReturnConfirmed(request, proxyCall, u) ==
    [resp  |-> IF u.panic THEN Panicked
               ELSE ReturnRedirect(SuccessURL,
                        [order |-> request.OrderID, payment |-> "confirmed"], "success"),
     calls |-> proxyCall \o u.calls, magic |-> u.magic]

\* method 2: PayPal's parameters are present
ReturnFallback(request, proxyCall, u) ==
    [resp  |-> IF u.panic THEN Panicked
               ELSE IF u.err = Nil
               THEN ReturnRedirect(SuccessURL,
                        [order |-> request.OrderID, payment |-> "success"], "success")
               ELSE ReturnRedirect(ErrorURL,
                        [order |-> request.OrderID,
                         error |-> "payment_verification_failed"], "error"),
     calls |-> proxyCall \o u.calls, magic |-> u.magic]

\* ReturnAfterProxy with a fallback that does not look for PayPal's parameters
ReturnAfterProxyAlwaysFallback(repo, request, useProxy, proxy, proxyCall, netUpdate) ==
    IF useProxy /\ proxy.err = Nil /\ IsPaymentCompleted(proxy.order)
    THEN ReturnConfirmed(request, proxyCall,
             updateOriginalOrderWithPayment(repo, request, proxy.order.TransactionID,
                                            netUpdate))
    ELSE ReturnFallback(request, proxyCall,
             updateOriginalOrderWithPayment(repo, request, request.TransactionID,
                                            netUpdate))

\* proxy is the result of GetOITAMOrder, looked at only when the request
\* names a proxy order
ReturnAfterProxy(repo, request, useProxy, proxy, proxyCall, netUpdate) ==
    IF useProxy /\ proxy.err = Nil /\ IsPaymentCompleted(proxy.order)
    THEN ReturnConfirmed(request, proxyCall,
             updateOriginalOrderWithPayment(repo, request, proxy.order.TransactionID,
                                            netUpdate))
    ELSE IF request.PaymentID # <<>> \/ request.PayerID # <<>>
    THEN ReturnFallback(request, proxyCall,
             updateOriginalOrderWithPayment(repo, request, request.TransactionID,
                                            netUpdate))
    ELSE [resp  |-> ReturnRedirect(ErrorURL,
                        [order |-> request.OrderID,
                         error |-> "payment_verification_failed"], "error"),
          calls |-> proxyCall, magic |-> magic]

ReturnProxy(repo, request, proxy, netUpdate) ==
    ReturnAfterProxy(repo, request, request.OITAMOrderID # <<>>, proxy,
                     IF request.OITAMOrderID # <<>>
                     THEN <<[op |-> "GetOITAMOrder", orderID |-> request.OITAMOrderID,
                             err |-> proxy.err]>>
                     ELSE <<>>,
                     netUpdate)

PaymentReturnExecute(repo, request, netProxy, netUpdate, now) ==
    IF request.OrderID = <<>>
    THEN [resp  |-> ReturnRedirect(ErrorURL, [error |-> "missing_order_id"], "error"),
          calls |-> <<>>, magic |-> magic]
    ELSE ReturnProxy(repo, request,
                     GetOITAMOrder(request.OITAMOrderID, netProxy, now), netUpdate)

(***************************************************************************)
(* PaymentCancelUseCase                                                    *)
(* (internal/application/usecases/payment_cancel_usecase.go)               *)
(***************************************************************************)
\* PaymentCancelExecute that gives up when the update of the source order fails
PaymentCancelExecuteFailing(request, netUpdate) ==
    IF request.OrderID # <<>> /\ netUpdate = "fail"
    THEN [resp  |-> [err |-> "failed to update order status"],
          calls |-> <<[op |-> "UpdateMagicOrderStatus", orderID |-> request.OrderID,
                       status |-> "cancelled", err |-> "API request failed"]>>,
          magic |-> magic]
    ELSE [resp  |-> [err |-> Nil,
                     RedirectURL |-> [base |-> CancelURL,
                                      query |-> [order |-> request.OrderID,
                                                 payment |-> "cancelled"]],
                     Status |-> "cancelled"],
          calls |-> <<>>, magic |-> magic]

PaymentCancelExecute(request, netUpdate) ==
    LET updated == UpdateMagicOrderStatus(magic, request.OrderID, "cancelled",
                                          netUpdate)
        response == [err |-> Nil,
                    RedirectURL |-> [base |-> CancelURL,
                                     query |-> [order |-> request.OrderID,
                                                payment |-> "cancelled"]],
                    Status |-> "cancelled"]
    IN  IF request.OrderID # <<>>
        THEN [resp  |-> response,
              calls |-> <<[op |-> "UpdateMagicOrderStatus", orderID |-> request.OrderID,
                           status |-> "cancelled", err |-> updated.err]>>,
              magic |-> updated.store]
        ELSE [resp |-> response, calls |-> <<>>, magic |-> magic]

(***************************************************************************)
(* WebhookUseCase (unnamed/part_005).  A value of the decoded JSON         *)
(* resource is tagged with its dynamic type.                               *)
(***************************************************************************)
Absent == [t |-> "absent"]
Number == [t |-> "number"]
String(v) == [t |-> "string", v |-> v]
Object(fields) == [t |-> "object", fields |-> fields]

\* parseFloat: fmt.Sscanf(s, "%f", &f) reads the number that starts the text
parseFloat(s) ==
    LET r == ScanDecimal(s)
    IN  [ok |-> r.ok, cents |-> IF r.ok THEN r.cents ELSE 0]

extractOrderIDFromResource(resource) ==
    IF resource.custom_id.t = "string" THEN resource.custom_id.v
    ELSE IF resource.invoice_id.t = "string" THEN resource.invoice_id.v
    ELSE <<>>

\* WebhookAmount that drops the amount
WebhookAmountZero(resource) == ZeroMoney

\* the Money read off resource["amount"]
WebhookAmount(resource) ==
    IF resource.amount.t # "object" THEN ZeroMoney
    ELSE LET value    == resource.amount.fields.value
             currency == resource.amount.fields.currency_code
         IN  Money(IF value.t = "string" /\ parseFloat(value.v).ok
                   THEN parseFloat(value.v).cents ELSE 0,
                   IF currency.t = "string" THEN currency.v ELSE "")

handlePaymentCaptureCompleted(request, net) ==
    LET resource == request.Resource
        orderID  == extractOrderIDFromResource(resource)
        payment  == CreatePaymentRecord(orderID, resource.id.v, <<>>,
                                        WebhookAmount(resource), "completed")
        updated  == UpdateMagicOrderPayment(magic, orderID, payment, net)
    IN  IF resource.id.t # "string"
        THEN [resp |-> [err |-> "payment ID not found in webhook"], calls |-> <<>>,
              magic |-> magic]
        ELSE IF orderID = <<>>
        THEN [resp |-> [err |-> "order ID not found in webhook"], calls |-> <<>>,
              magic |-> magic]
        ELSE [resp  |-> IF updated.err # Nil
                        THEN [err |-> "failed to update order", cause |-> updated.err]
                        ELSE [err |-> Nil, Status |-> "processed"],
              calls |-> <<[op |-> "UpdateMagicOrderPayment", orderID |-> orderID,
                           payment |-> payment, err |-> updated.err]>>,
              magic |-> updated.store]

\* handlePaymentCaptureDenied and handlePaymentCaptureRefunded: status is
\* failed for the first, refunded for the second
handlePaymentCaptureStatus(request, status, net) ==
    LET orderID == extractOrderIDFromResource(request.Resource)
        updated == UpdateMagicOrderStatus(magic, orderID, status, net)
    IN  IF orderID # <<>>
        THEN [resp  |-> [err |-> Nil, Status |-> "processed"],
              calls |-> <<[op |-> "UpdateMagicOrderStatus", orderID |-> orderID,
                           status |-> status, err |-> updated.err]>>,
              magic |-> updated.store]
        ELSE [resp |-> [err |-> Nil, Status |-> "processed"], calls |-> <<>>,
              magic |-> magic]

handlePaymentCaptureDenied(request, net) ==
    handlePaymentCaptureStatus(request, "failed", net)

handlePaymentCaptureRefunded(request, net) ==
    handlePaymentCaptureStatus(request, "refunded", net)

WebhookExecute(request, net) ==
    IF request.EventType = "PAYMENT.CAPTURE.COMPLETED"
    THEN handlePaymentCaptureCompleted(request, net)
    ELSE IF request.EventType = "PAYMENT.CAPTURE.DENIED"
    THEN handlePaymentCaptureDenied(request, net)
    ELSE IF request.EventType = "PAYMENT.CAPTURE.REFUNDED"
    THEN handlePaymentCaptureRefunded(request, net)
    ELSE [resp |-> [err |-> Nil, Status |-> "ignored"], calls |-> <<>>, magic |-> magic]

(***************************************************************************)
(* The proxy as a state machine.  Every request is handled in one step;    *)
(* the outcome of each request to a store is chosen by the environment.    *)
(***************************************************************************)
OrderID123 == <<"1", "2", "3">>
OrderID999 == <<"9", "9", "9">>
PaymentIDs == {<<>>, <<"P", "A", "Y", "1">>}
PayerIDs == {<<>>, <<"P", "A", "Y", "E", "R", "1">>}

\* the ids the processing store hands out
ProxyOrderIDs == {Itoa(1000 + i) : i \in 1..MaxProxyOrders}

\* the redirect requests: order id and Host
RedirectInputs ==
    {[orderId |-> id, host |-> "pay.oitam.com"] : id \in {<<>>, OrderID123, OrderID999}}
    \cup {[orderId |-> OrderID123, host |-> "pay.oitam.com%zz"]}

\* the query parameters of the return requests
ReturnInputs ==
    {[OrderID |-> OrderID123, OITAMOrderID |-> proxyId, Status |-> "",
      PaymentID |-> paymentId, PayerID |-> payerId, TransactionID |-> <<>>] :
        proxyId \in {<<>>} \cup ProxyOrderIDs, paymentId \in PaymentIDs,
        payerId \in PayerIDs}
    \cup {[OrderID |-> id, OITAMOrderID |-> <<>>, Status |-> "",
           PaymentID |-> <<"P", "A", "Y", "1">>, PayerID |-> <<>>,
           TransactionID |-> <<>>] : id \in {<<>>, OrderID999}}
    \cup {[OrderID |-> <<>>, OITAMOrderID |-> <<>>, Status |-> "", PaymentID |-> <<>>,
           PayerID |-> <<>>, TransactionID |-> <<>>]}

\* the longest order id the validating handlers accept
OrderIDMaxLen == 50

LongOrderID == [i \in 1..(OrderIDMaxLen + 1) |-> "7"]

\* A Referer header: scheme (the text before "://"), host, port and path.
NoReferrer == [scheme |-> "", host |-> "", port |-> "", path |-> ""]

Referrers ==
    {NoReferrer,
     [scheme |-> "https", host |-> "magicspore.com", port |-> "", path |-> "/koszyk"],
     [scheme |-> "http", host |-> "localhost", port |-> ":8080", path |-> "/"],
     [scheme |-> "", host |-> "oitam.com", port |-> "", path |-> "/checkout"],
     [scheme |-> "https", host |-> "evil.example", port |-> "", path |-> "/"],
     [scheme |-> "ftp", host |-> "magicspore.com", port |-> "", path |-> "/"]}

\* the requests the validating handlers get: raw query parameters

ValidatedRedirectInputs ==
    {[orderId |-> id, host |-> "pay.oitam.com", referrer |-> NoReferrer] :
        id \in {<<>>, OrderID123, OrderID999, <<"1", "2", "-", "3">>, LongOrderID}}
    \cup {[orderId |-> OrderID123, host |-> "pay.oitam.com", referrer |-> ref] :
            ref \in Referrers}
    \cup {[orderId |-> id, host |-> "pay.oitam.com",
           referrer |-> [scheme |-> "https", host |-> "evil.example", port |-> "",
                         path |-> "/"]] : id \in {<<>>, <<"1", "2", "-", "3">>}}

ReturnQuery(orderId, proxyId, status, paymentId, payerId) ==
    [order_id |-> orderId, oitam_order_id |-> proxyId, status |-> status,
     paymentId |-> paymentId, PayerID |-> payerId, transaction_id |-> <<>>]

ValidatedReturnInputs ==
    {ReturnQuery(OrderID123, proxyId, "", paymentId, payerId) :
        proxyId \in {<<>>} \cup ProxyOrderIDs, paymentId \in PaymentIDs,
        payerId \in PayerIDs}
    \cup {ReturnQuery(OrderID123, <<>>, status, <<"P", "A", "Y", "1">>, <<>>) :
            status \in {"success", "approved"}}
    \cup {ReturnQuery(id, <<>>, "", <<"P", "A", "Y", "1">>, <<>>) :
            id \in {<<>>, <<"1", "2", "<", "3">>, <<"1", "2", "-", "3">>}}
    \cup {ReturnQuery(OrderID123, <<>>, "", <<"P", "A", "Y", " ", "1">>, <<>>),
          ReturnQuery(OrderID123, <<>>, "", <<>>, <<"P", "-", "1">>)}

ValidatedCancelInputs ==
    {[order_id |-> id, oitam_order_id |-> <<>>] :
        id \in {<<>>, OrderID123, OrderID999, <<" ", "1", "2", "3", " ">>,
                <<"1", "2", "-", "3">>, LongOrderID}}

CancelInputs ==
    {[OrderID |-> id, OITAMOrderID |-> <<>>] : id \in {<<>>, OrderID123, OrderID999}}
    \cup {[OrderID |-> OrderID123, OITAMOrderID |-> id] : id \in ProxyOrderIDs}

Init ==
    /\ magic \in {[present |-> FALSE]} \cup {[present |-> TRUE, order |-> o] : o \in MagicOrders}
    /\ oitam = <<>>
    /\ req = NoRequest
    /\ resp = NoResponse
    /\ result = NoResponse
    /\ calls = <<>>
    \* main.go wires a nil PaymentRepository into the return use case; the
    \* constructor takes any implementation of the interface
    /\ paymentRepo \in {"nil", "stub"}
    \* GetWebhookSecret: "default-webhook-secret" when WEBHOOK_SECRET is not set
    /\ webhookSecret \in {"default-webhook-secret", "s3cret"}
    /\ anonIn = <<>>
    /\ anonOut = <<>>
    /\ retry = [state |-> "none"]
    /\ flights = <<>>
    /\ money = [state |-> "none"]
    /\ served = [state |-> "none"]

(***************************************************************************)
(* The plain handlers (unnamed/part_002): the query parameters go to the   *)
(* orchestrator (internal/application/services/payment_orchestrator.go)    *)
(* as they are.                                                            *)
(***************************************************************************)
\* respondWithError
ErrorResponse(statusCode, message) == [status |-> statusCode, error |-> message]

Redirect(location) == [status |-> 302, Location |-> location]

\* the answer of gin's Recovery middleware to a panic in a handler
Recovered == [status |-> 500, error |-> "panic recovered"]

HandlePaymentRedirect(request, netFetch, netCreate, now) ==
    PaymentRedirectExecute(request, netFetch, netCreate, now)

HandlePaymentReturn(request, netProxy, netUpdate, now) ==
    PaymentReturnExecute(paymentRepo, request, netProxy, netUpdate, now)

HandlePaymentCancel(request, netUpdate) == PaymentCancelExecute(request, netUpdate)

HandleWebhook(request, net) == WebhookExecute(request, net)

\* PaymentRedirect of the plain handler; r is what the orchestrator returns
BasicRedirectAnswer(in, r) ==
    /\ req' = [handler |-> "basic", route |-> "/redirect",
               query |-> [orderId |-> in.orderId], host |-> in.host,
               dto |-> [OrderID |-> in.orderId, Domain |-> in.host]]
    /\ IF in.orderId = <<>>
       THEN /\ resp' = ErrorResponse(400, "Missing orderId parameter")
            /\ result' = NoResponse
            /\ calls' = <<>>
            /\ oitam' = oitam
       ELSE /\ Len(r.oitam) <= MaxProxyOrders
            /\ resp' = IF r.resp.err # Nil
                       THEN ErrorResponse(500, "Payment redirect failed")
                       ELSE Redirect(r.resp.RedirectURL)
            /\ result' = r.resp
            /\ calls' = r.calls
            /\ oitam' = r.oitam
    /\ UNCHANGED <<magic, paymentRepo, webhookSecret, anonIn, anonOut, retry, flights, money, served>>

BasicPaymentRedirect ==
    /\ req = NoRequest
    /\ \E in \in RedirectInputs, netFetch \in NetOutcomes, netCreate \in NetOutcomes,
          now \in Clock :
           BasicRedirectAnswer(in,
               HandlePaymentRedirect([OrderID |-> in.orderId, Domain |-> in.host],
                                     netFetch, netCreate, now))

\* PayPalReturn of the plain handler; a panic in the use case is answered by
\* the Recovery middleware
BasicReturnAnswer(request, r) ==
    /\ req' = [handler |-> "basic", route |-> "/paypal-return", query |-> request,
               dto |-> request]
    /\ resp' = IF r.resp.panic THEN Recovered ELSE Redirect(r.resp.RedirectURL)
    /\ result' = r.resp
    /\ calls' = r.calls
    /\ magic' = r.magic
    /\ UNCHANGED <<oitam, paymentRepo, webhookSecret, anonIn, anonOut, retry, flights, money, served>>

BasicPayPalReturn ==
    /\ req = NoRequest
    /\ \E request \in ReturnInputs, netProxy \in NetOutcomes, netUpdate \in NetOutcomes :
           \* the stores' dates parse: no reading of time.Now() reaches the result
           BasicReturnAnswer(request, HandlePaymentReturn(request, netProxy, netUpdate, 1))

BasicPayPalCancel ==
    /\ req = NoRequest
    /\ \E request \in CancelInputs, netUpdate \in NetOutcomes :
           LET r == HandlePaymentCancel(request, netUpdate)
           IN  /\ req' = [handler |-> "basic", route |-> "/paypal-cancel", query |-> request,
                          dto |-> request]
               /\ resp' = Redirect(r.resp.RedirectURL)
               /\ result' = r.resp
               /\ calls' = r.calls
               /\ magic' = r.magic
               /\ UNCHANGED <<oitam, paymentRepo, webhookSecret, anonIn, anonOut, retry, flights, money, served>>

(***************************************************************************)
(* Webhook bodies.  A body is malformed or a JSON object with event_type   *)
(* and resource.                                                           *)
(***************************************************************************)
\* the capture id of the events: the payment id the return requests carry
CaptureID == <<"P", "A", "Y", "1">>

Resource(id, customID, invoiceID, amount) ==
    [id |-> id, custom_id |-> customID, invoice_id |-> invoiceID, amount |-> amount]

Amount(value, currency) == Object([value |-> value, currency_code |-> currency])

CompletedResources ==
    {Resource(String(CaptureID), String(OrderID123), Absent, amount) :
        amount \in {Absent,
                    Amount(String(<<"1", "0", ".", "0", "0">>), String("USD")),
                    Amount(String(<<"n", "/", "a">>), Absent),
                    Amount(Number, String("USD"))}}
    \cup {Resource(String(CaptureID), customID, invoiceID, Absent) :
            customID \in {Absent, String(OrderID999), String(<<>>)},
            invoiceID \in {Absent, String(OrderID123)}}
    \cup {Resource(id, String(OrderID123), Absent,
                    Amount(String(<<"1", "0", ".", "0", "0">>), String("USD"))) :
            id \in {Absent, Number}}

WebhookBodies ==
    {[wellformed |-> TRUE, event_type |-> "PAYMENT.CAPTURE.COMPLETED", resource |-> r] :
        r \in CompletedResources}
    \cup {[wellformed |-> TRUE, event_type |-> e, resource |-> r] :
            e \in {"PAYMENT.CAPTURE.DENIED", "PAYMENT.CAPTURE.REFUNDED",
                   "PAYMENT.CAPTURE.PENDING", "CUSTOMER.DISPUTE.CREATED"},
            r \in {Resource(String(CaptureID), String(OrderID123), Absent, Absent),
                   Resource(String(CaptureID), Absent, String(OrderID123), Absent),
                   Resource(Absent, Absent, Absent, Absent)}}
    \cup {[wellformed |-> FALSE]}

\* the request body as a stream: what is left of it to read
EmptyBody == [wellformed |-> FALSE, drained |-> TRUE]

\* c.ShouldBindJSON(&request) on what is left of the body
ShouldBindJSON(body) ==
    IF body.wellformed
    THEN [err |-> Nil,
          request |-> [EventType |-> body.event_type, Resource |-> body.resource]]
    ELSE [err |-> "invalid JSON"]

BasicWebhookHandler ==
    /\ req = NoRequest
    /\ \E body \in WebhookBodies, net \in NetOutcomes :
           LET bound == ShouldBindJSON(body)
               r     == HandleWebhook(bound.request, net)
           IN  /\ req' = [handler |-> "basic", route |-> "/webhook", body |-> body]
               /\ IF bound.err # Nil
                  THEN /\ resp' = ErrorResponse(400, "Invalid webhook data")
                       /\ result' = NoResponse
                       /\ calls' = <<>>
                       /\ magic' = magic
                  ELSE /\ resp' = IF r.resp.err # Nil
                                  THEN ErrorResponse(500, "Webhook processing failed")
                                  ELSE [status |-> 200, body |-> r.resp]
                       /\ result' = r.resp
                       /\ calls' = r.calls
                       /\ magic' = r.magic
               /\ UNCHANGED <<oitam, paymentRepo, webhookSecret, anonIn, anonOut, retry, flights, money, served>>

(***************************************************************************)
(* The customer at the processing store's checkout: the proxy order is     *)
(* paid (processing, with a transaction id) or held for review (on-hold,   *)
(* no transaction id yet).                                                 *)
(***************************************************************************)

CustomerPays ==
    /\ req = NoRequest
    /\ \E i \in 1..Len(oitam),
          outcome \in {[status |-> "processing", transaction_id |-> <<"T", "X", "1">>],
                       [status |-> "on-hold", transaction_id |-> <<>>]} :
        /\ oitam[i].status = "pending"
        /\ oitam' = [oitam EXCEPT ![i].status = outcome.status,
                                  ![i].transaction_id = outcome.transaction_id]
    /\ UNCHANGED <<magic, req, resp, result, calls, paymentRepo, webhookSecret, anonIn, anonOut, retry, flights, money, served>>

\* The answer has gone out: the server takes the next request.  (Requests
\* are handled one at a time; req, resp and calls describe the one at hand.)
RequestDone ==
    /\ req # NoRequest
    /\ req' = NoRequest
    /\ resp' = NoResponse
    /\ result' = NoResponse
    /\ calls' = <<>>
    /\ UNCHANGED <<magic, oitam, paymentRepo, webhookSecret, anonIn, anonOut, retry, flights, money, served>>

(***************************************************************************)
(* The validating handlers                                                 *)
(* (internal/presentation/handlers/payment_handler.go)                     *)
(***************************************************************************)
\* validateOrderID without the check of the characters
validateOrderIDAnyCharacter(orderID) ==
    /\ orderID # <<>>
    /\ Len(orderID) >= 1 /\ Len(orderID) <= OrderIDMaxLen

\* ^[a-zA-Z0-9]{1,50}$
validateOrderID(orderID) ==
    /\ orderID # <<>>
    /\ Len(orderID) >= 1 /\ Len(orderID) <= OrderIDMaxLen
    /\ \A i \in 1..Len(orderID) : orderID[i] \in Letters \cup DigitSet

RECURSIVE TrimLeft(_)
TrimLeft(t) == IF t # <<>> /\ Head(t) = " " THEN TrimLeft(Tail(t)) ELSE t

RECURSIVE TrimRight(_)
TrimRight(t) == IF t # <<>> /\ t[Len(t)] = " " THEN TrimRight(SubSeq(t, 1, Len(t) - 1))
                ELSE t

\* strings.ReplaceAll of < > ' " ; & by nothing, then strings.TrimSpace
sanitizeInput(input) ==
    TrimRight(TrimLeft(SelectSeq(input,
        LAMBDA c : c \notin {"<", ">", "'", "\"", ";", "&"})))

allowedDomains == {"magicspore.com", "www.magicspore.com", "oitam.com", "www.oitam.com",
                   "localhost", "127.0.0.1"}

\* isValidReferrer: only http:// and https:// are cut off the front; then
\* the text up to the first "/" and in it up to the first ":" is looked up
isValidReferrer(referrer) ==
    \/ referrer = NoReferrer
    \/ (IF referrer.scheme \in {"", "http", "https"} THEN referrer.host
        ELSE referrer.scheme) \in allowedDomains

\* ^[a-zA-Z0-9_-]{1,100}$
ValidPaymentID(id) ==
    /\ Len(id) >= 1 /\ Len(id) <= 100
    /\ \A i \in 1..Len(id) : id[i] \in Letters \cup DigitSet \cup {"_", "-"}

validStatuses == {"approved", "completed", "cancelled", "failed"}

validatePaymentReturnRequest(request) ==
    /\ request.OrderID # <<>> /\ validateOrderID(request.OrderID)
    /\ request.PaymentID # <<>> => ValidPaymentID(request.PaymentID)
    /\ request.PayerID # <<>> => validateOrderID(request.PayerID)
    /\ request.Status # "" => request.Status \in validStatuses

\* reaches: the request passed the referrer and order id checks; r is what
\* the orchestrator returns
RedirectAnswer(in, reaches, r) ==
    /\ req' = [handler |-> "validating", route |-> "/redirect",
               query |-> [orderId |-> in.orderId], host |-> in.host,
               referrer |-> in.referrer,
               dto |-> [OrderID |-> in.orderId, Domain |-> in.host]]
    /\ reaches => Len(r.oitam) <= MaxProxyOrders
    /\ resp' = IF ~isValidReferrer(in.referrer)
               THEN ErrorResponse(403, "Invalid referrer")
               ELSE IF in.orderId = <<>>
               THEN ErrorResponse(400, "Missing orderId parameter")
               ELSE IF ~validateOrderID(in.orderId)
               THEN ErrorResponse(400, "Invalid order ID format")
               ELSE IF r.resp.err # Nil
               THEN ErrorResponse(500, "Payment redirect failed")
               ELSE Redirect(r.resp.RedirectURL)
    /\ result' = IF reaches THEN r.resp ELSE NoResponse
    /\ calls' = IF reaches THEN r.calls ELSE <<>>
    /\ oitam' = IF reaches THEN r.oitam ELSE oitam
    /\ UNCHANGED <<magic, paymentRepo, webhookSecret, anonIn, anonOut, retry, flights, money, served>>

PaymentRedirect ==
    /\ req = NoRequest
    /\ \E in \in ValidatedRedirectInputs, netFetch \in NetOutcomes,
          netCreate \in NetOutcomes, now \in Clock :
           RedirectAnswer(in,
               /\ isValidReferrer(in.referrer)
               /\ in.orderId # <<>>
               /\ validateOrderID(in.orderId),
               HandlePaymentRedirect([OrderID |-> in.orderId, Domain |-> in.host],
                                     netFetch, netCreate, now))

\* the PaymentReturnRequest made of the sanitized query parameters
ReturnRequest(query) ==
    [OrderID       |-> sanitizeInput(query.order_id),
     OITAMOrderID  |-> sanitizeInput(query.oitam_order_id),
     \* no status of the model holds a character that sanitizeInput removes
     Status        |-> query.status,
     PaymentID     |-> sanitizeInput(query.paymentId),
     PayerID       |-> sanitizeInput(query.PayerID),
     TransactionID |-> sanitizeInput(query.transaction_id)]

ReturnAnswer(query, request, valid, r) ==
    /\ req' = [handler |-> "validating", route |-> "/paypal-return",
               query |-> query, dto |-> request]
    /\ resp' = IF ~valid THEN ErrorResponse(400, "Invalid return parameters")
               ELSE IF r.resp.panic THEN Recovered
               ELSE Redirect(r.resp.RedirectURL)
    /\ result' = IF valid THEN r.resp ELSE NoResponse
    /\ calls' = IF valid THEN r.calls ELSE <<>>
    /\ magic' = IF valid THEN r.magic ELSE magic
    /\ UNCHANGED <<oitam, paymentRepo, webhookSecret, anonIn, anonOut, retry, flights, money, served>>

ReturnValidated(query, request, netProxy, netUpdate) ==
    ReturnAnswer(query, request, validatePaymentReturnRequest(request),
                 HandlePaymentReturn(request, netProxy, netUpdate, 1))

PayPalReturn ==
    /\ req = NoRequest
    /\ \E query \in ValidatedReturnInputs, netProxy \in NetOutcomes,
          netUpdate \in NetOutcomes :
           ReturnValidated(query, ReturnRequest(query), netProxy, netUpdate)

PayPalCancel ==
    /\ req = NoRequest
    /\ \E query \in ValidatedCancelInputs, netUpdate \in NetOutcomes :
           LET request == [OrderID      |-> sanitizeInput(query.order_id),
                           OITAMOrderID |-> sanitizeInput(query.oitam_order_id)]
               valid   == request.OrderID = <<>> \/ validateOrderID(request.OrderID)
               r       == HandlePaymentCancel(request, netUpdate)
           IN  /\ req' = [handler |-> "validating", route |-> "/paypal-cancel",
                          query |-> query, dto |-> request]
               /\ resp' = IF ~valid THEN ErrorResponse(400, "Invalid order ID format")
                          ELSE Redirect(r.resp.RedirectURL)
               /\ result' = IF valid THEN r.resp ELSE NoResponse
               /\ calls' = IF valid THEN r.calls ELSE <<>>
               /\ magic' = IF valid THEN r.magic ELSE magic
               /\ UNCHANGED <<oitam, paymentRepo, webhookSecret, anonIn, anonOut, retry, flights, money, served>>

\* HMAC-SHA256 of the body under a key, as the signature headers carry it:
\* two signatures are equal when key and body are
Sign(key, body) == [alg |-> "sha256", key |-> key, body |-> body]

NoSignature == [alg |-> "none"]

\* verifyWebhookSignature; signature is the X-PayPal-Transmission-Sig header,
\* or X-Hub-Signature-256 when that one is empty
verifyWebhookSignature(signature, body) ==
    \/ webhookSecret = ""
    \/ webhookSecret = "default-webhook-secret"
    \/ /\ signature # NoSignature
       /\ signature = Sign(webhookSecret, body)

isValidWebhookEventType(eventType) ==
    eventType \in {"PAYMENT.CAPTURE.COMPLETED", "PAYMENT.CAPTURE.DENIED",
                   "PAYMENT.CAPTURE.REFUNDED", "PAYMENT.CAPTURE.PENDING",
                   "CHECKOUT.ORDER.APPROVED", "CHECKOUT.ORDER.COMPLETED"}

\* io.ReadAll(c.Request.Body): the bytes read, and what is left to read
ReadAll(body) == [data |-> body, rest |-> EmptyBody]

\* the content types a webhook request may carry; strings.Contains finds
\* "application/json" in the first two
ContentTypes == {"application/json", "application/json; charset=utf-8", "text/plain"}

ValidatedWebhookBodies ==
    {b \in WebhookBodies :
        \/ ~b.wellformed
        \/ /\ b.event_type \in {"PAYMENT.CAPTURE.COMPLETED", "PAYMENT.CAPTURE.PENDING",
                                 "CUSTOMER.DISPUTE.CREATED"}
           /\ b.resource.custom_id = String(OrderID123)
           /\ b.resource.amount \in {Absent, Amount(String(<<"1", "0", ".", "0", "0">>),
                                                    String("USD"))}
           /\ b.resource.id = String(CaptureID)}

ValidatedWebhookInputs ==
    UNION {{[contentType |-> "application/json", signature |-> sig, body |-> b] :
                sig \in {NoSignature, Sign("s3cret", b), Sign("guess", b)}} :
            b \in ValidatedWebhookBodies}
    \cup {[contentType |-> ct, signature |-> NoSignature, body |-> b] :
            ct \in ContentTypes,
            b \in {x \in ValidatedWebhookBodies :
                     x.wellformed /\ x.event_type = "CUSTOMER.DISPUTE.CREATED"}}

WebhookHandler ==
    /\ req = NoRequest
    /\ \E in \in ValidatedWebhookInputs, net \in NetOutcomes :
           LET read    == ReadAll(in.body)
               bound   == ShouldBindJSON(read.rest)
               r       == HandleWebhook(bound.request, net)
               reaches == /\ in.contentType \in {"application/json",
                                                  "application/json; charset=utf-8"}
                          /\ verifyWebhookSignature(in.signature, read.data)
                          /\ bound.err = Nil
                          /\ isValidWebhookEventType(bound.request.EventType)
           IN  /\ req' = [handler |-> "validating", route |-> "/webhook",
                          contentType |-> in.contentType, signature |-> in.signature,
                          body |-> in.body]
               /\ resp' = IF in.contentType \notin {"application/json",
                                                    "application/json; charset=utf-8"}
                          THEN ErrorResponse(415, "Invalid content type")
                          ELSE IF ~verifyWebhookSignature(in.signature, read.data)
                          THEN ErrorResponse(401, "Invalid signature")
                          ELSE IF bound.err # Nil
                          THEN ErrorResponse(400, "Invalid webhook data")
                          ELSE IF ~isValidWebhookEventType(bound.request.EventType)
                          THEN ErrorResponse(400, "Invalid event type")
                          ELSE IF r.resp.err # Nil
                          THEN ErrorResponse(500, "Webhook processing failed")
                          ELSE [status |-> 200, body |-> r.resp]
               /\ result' = IF reaches THEN r.resp ELSE NoResponse
               /\ calls' = IF reaches THEN r.calls ELSE <<>>
               /\ magic' = IF reaches THEN r.magic ELSE magic
               /\ UNCHANGED <<oitam, paymentRepo, webhookSecret, anonIn, anonOut, retry, flights, money, served>>

(***************************************************************************)
(* APIHandler (unnamed/part_003): the read-through to the source store.    *)
(***************************************************************************)
\* dto.OrderStatusResponse made of the fetched order
OrderStatusResponse(orderID, fetched) ==
    IF fetched.err # Nil THEN NoResponse
    ELSE [OrderID       |-> orderID,
          Status        |-> fetched.order.Status,
          Total         |-> fetched.order.Total.Amount,
          Currency      |-> fetched.order.Currency,
          PaymentMethod |-> fetched.order.PaymentMethod,
          DateCreated   |-> fetched.order.DateCreated,
          TransactionID |-> fetched.order.TransactionID]

\* the answer of GetOrder and GetOrderStatus: fetched is what GetMagicOrder
\* returned, body the JSON sent when it returned an order; every error goes
\* to respondWithError with http.StatusNotFound, whose Message is err.Error()
APIAnswer(route, orderID, fetched, body) ==
    /\ req' = [handler |-> "api", route |-> route, id |-> orderID]
    /\ resp' = IF fetched.err # Nil
               THEN [status |-> 404, error |-> "Order not found", message |-> fetched.err]
               ELSE [status |-> 200, body |-> body]
    /\ result' = NoResponse
    /\ calls' = <<[op |-> "GetMagicOrder", orderID |-> orderID, err |-> fetched.err]>>
    /\ UNCHANGED <<magic, oitam, paymentRepo, webhookSecret, anonIn, anonOut, retry, flights, money, served>>

GetOrder ==
    /\ req = NoRequest
    /\ \E orderID \in {OrderID123, OrderID999}, net \in NetOutcomes, now \in Clock :
           \E fetched \in {GetMagicOrder(orderID, net, now)} :
               APIAnswer("/api/v1/order/:id", orderID, fetched,
                         IF fetched.err # Nil THEN NoResponse ELSE fetched.order)

GetOrderStatus ==
    /\ req = NoRequest
    /\ \E orderID \in {OrderID123, OrderID999}, net \in NetOutcomes, now \in Clock :
           \E fetched \in {GetMagicOrder(orderID, net, now)} :
               APIAnswer("/api/v1/status/:id", orderID, fetched,
                         OrderStatusResponse(orderID, fetched))

Next ==
    \/ BasicPaymentRedirect
    \/ BasicPayPalReturn
    \/ BasicPayPalCancel
    \/ BasicWebhookHandler
    \/ PaymentRedirect
    \/ PayPalReturn
    \/ PayPalCancel
    \/ WebhookHandler
    \/ GetOrder
    \/ GetOrderStatus
    \/ CustomerPays
    \/ RequestDone

Spec == Init /\ [][Next]_vars

(***************************************************************************)
(* Redirect requests in flight at once.  gin serves every request on its   *)
(* own goroutine and PaymentRedirectUseCase.Execute (unnamed/part_006)     *)
(* takes no lock, so between the GetMagicOrder call of one request and its *)
(* CreateOITAMOrder call the calls of another request may reach the        *)
(* stores.  A flight is one request inside Execute: idle before its fetch, *)
(* fetched when GetMagicOrder has returned, done when Execute has.         *)
(***************************************************************************)
MaxFlights == 2         \* redirect requests in flight at once

InitRace ==
    /\ magic \in {[present |-> FALSE]} \cup {[present |-> TRUE, order |-> o] : o \in MagicOrders}
    /\ oitam = <<>>
    /\ req = NoRequest
    /\ resp = NoResponse
    /\ result = NoResponse
    /\ calls = <<>>
    /\ paymentRepo = "nil"
    /\ webhookSecret = "default-webhook-secret"
    /\ anonIn = <<>>
    /\ anonOut = <<>>
    /\ retry = [state |-> "none"]
    /\ flights = [p \in 1..MaxFlights |-> [pc |-> "idle"]]
    /\ money = [state |-> "none"]
    /\ served = [state |-> "none"]

\* step 1 of Execute for flight p: GetMagicOrder returns; proxiesAtFetch is
\* the number of proxy orders the processing store held at that moment
FlightFetch(p) ==
    /\ flights[p].pc = "idle"
    /\ \E orderID \in {OrderID123, OrderID999}, net \in NetOutcomes, now \in Clock :
           flights' = [flights EXCEPT ![p] =
                          [pc |-> "fetched",
                           request |-> [OrderID |-> orderID, Domain |-> "pay.oitam.com"],
                           fetched |-> GetMagicOrder(orderID, net, now),
                           proxiesAtFetch |-> Len(oitam)]]
    /\ UNCHANGED <<magic, oitam, req, resp, result, calls, paymentRepo, webhookSecret,
                   anonIn, anonOut, retry, money, served>>

\* steps 2 to 6 of Execute for flight p: the fetched order is validated and
\* anonymized, and CreateOITAMOrder reaches the processing store as it is now;
\* r is what Execute returns
FlightCreate(p) ==
    /\ flights[p].pc = "fetched"
    /\ \E netCreate \in NetOutcomes, now \in Clock :
           \E r \in {RedirectFetch(flights[p].request, flights[p].fetched, netCreate, now)} :
               /\ Len(r.oitam) <= MaxProxyOrders
               /\ oitam' = r.oitam
               /\ flights' = [flights EXCEPT ![p] =
                                 [pc |-> "done", request |-> flights[p].request,
                                  fetched |-> flights[p].fetched,
                                  proxiesAtFetch |-> flights[p].proxiesAtFetch,
                                  result |-> r.resp, calls |-> r.calls]]
    /\ UNCHANGED <<magic, req, resp, result, calls, paymentRepo, webhookSecret,
                   anonIn, anonOut, retry, money, served>>

SpecRace == InitRace /\ [][\E p \in 1..MaxFlights : FlightFetch(p) \/ FlightCreate(p)]_vars

(***************************************************************************)
(* Money.Add (internal/domain/entities/money.go), applied to two Money     *)
(* values.  A Money literal keeps its currency code as written; only       *)
(* NewMoney upper-cases it.                                                *)
(***************************************************************************)
MaxAmount == 3          \* largest amount of an operand, in hundredths

\* an Add without the currency comparison
AddAnyCurrency(m, other) ==
    [sum |-> Money(m.Amount + other.Amount, m.Currency), err |-> Nil]

\* func (m Money) Add(other Money) (Money, error)
Add(m, other) ==
    IF m.Currency # other.Currency
    THEN [sum |-> ZeroMoney, err |-> "cannot add different currencies"]
    ELSE [sum |-> Money(m.Amount + other.Amount, m.Currency), err |-> Nil]

InitMoney ==
    /\ money \in {[state |-> "operands", m |-> Money(a, c), other |-> Money(b, d)] :
                    a \in (0 - MaxAmount)..MaxAmount, b \in (0 - MaxAmount)..MaxAmount,
                    c \in {"USD", "EUR", "usd", ""}, d \in {"USD", "EUR", "usd", ""}}
    /\ magic = [present |-> FALSE]
    /\ oitam = <<>>
    /\ req = NoRequest
    /\ resp = NoResponse
    /\ result = NoResponse
    /\ calls = <<>>
    /\ paymentRepo = "nil"
    /\ webhookSecret = "default-webhook-secret"
    /\ anonIn = <<>>
    /\ anonOut = <<>>
    /\ retry = [state |-> "none"]
    /\ flights = <<>>
    /\ served = [state |-> "none"]

\* sum, err := m.Add(other)
ApplyAdd ==
    /\ money.state = "operands"
    /\ money' = [state |-> "added", m |-> money.m, other |-> money.other,
                 out |-> Add(money.m, money.other)]
    /\ UNCHANGED <<magic, oitam, req, resp, result, calls, paymentRepo, webhookSecret,
                   anonIn, anonOut, retry, flights, served>>

SpecMoney == InitMoney /\ [][ApplyAdd]_vars

(***************************************************************************)
(* The Timeout middleware (internal/infrastructure/http/url_builder.go).   *)
(* It runs the wrapped handler in a goroutine of its own and waits in a    *)
(* select for the handler's send on done or for the request context's      *)
(* deadline.  served.handler and served.middleware are the positions of    *)
(* the two goroutines, served.writes the calls made on the one             *)
(* http.ResponseWriter they share, in the order they took effect.          *)
(***************************************************************************)
MaxHandlerWrites == 2   \* Write calls the wrapped handler makes at most

InitTimeout ==
    /\ served = [state |-> "serving", handler |-> "running", middleware |-> "select",
                 writes |-> <<>>]
    /\ magic = [present |-> FALSE]
    /\ oitam = <<>>
    /\ req = NoRequest
    /\ resp = NoResponse
    /\ result = NoResponse
    /\ calls = <<>>
    /\ paymentRepo = "nil"
    /\ webhookSecret = "default-webhook-secret"
    /\ anonIn = <<>>
    /\ anonOut = <<>>
    /\ retry = [state |-> "none"]
    /\ flights = <<>>
    /\ money = [state |-> "none"]

\* a step of the goroutine go func() { next.ServeHTTP(w, r); done <- true }():
\* the handler writes its header, writes to the body, or returns, and the
\* goroutine then blocks in the send on the unbuffered channel done.  Nothing
\* stops it when the context's deadline passes: it holds the same w.
ServeHTTP ==
    /\ served.state = "serving"
    /\ served.handler = "running"
    /\ \/ /\ \A i \in 1..Len(served.writes) : served.writes[i].by # "handler"
          /\ \E status \in {200, 302, 500} :
                served' = [served EXCEPT !.writes =
                              Append(@, [by |-> "handler", op |-> "WriteHeader",
                                         status |-> status])]
       \/ /\ \E i \in 1..Len(served.writes) : served.writes[i].by = "handler"
          /\ Cardinality({i \in 1..Len(served.writes) :
                             /\ served.writes[i].by = "handler"
                             /\ served.writes[i].op = "Write"}) < MaxHandlerWrites
          /\ served' = [served EXCEPT !.writes =
                           Append(@, [by |-> "handler", op |-> "Write", status |-> 0])]
       \/ /\ \E i \in 1..Len(served.writes) : served.writes[i].by = "handler"
          /\ served' = [served EXCEPT !.handler = "sending"]
    /\ UNCHANGED <<magic, oitam, req, resp, result, calls, paymentRepo, webhookSecret,
                   anonIn, anonOut, retry, flights, money>>

\* a step of the middleware's own goroutine: the select takes case <-done
\* when the handler goroutine is in its send, or case <-ctx.Done() when the
\* deadline has passed (either, when both are ready); after ctx.Done() it
\* calls w.WriteHeader(http.StatusRequestTimeout) and then w.Write, and
\* returns
Timeout ==
    /\ served.state = "serving"
    /\ \/ /\ served.middleware = "select"
          /\ served.handler = "sending"
          /\ served' = [served EXCEPT !.handler = "returned", !.middleware = "returned"]
       \/ /\ served.middleware = "select"
          /\ served' = [served EXCEPT !.middleware = "ctx.Done"]
       \/ /\ served.middleware = "ctx.Done"
          /\ served' = [served EXCEPT !.middleware = "WriteHeader",
                                      !.writes = Append(@, [by |-> "Timeout",
                                                            op |-> "WriteHeader",
                                                            status |-> 408])]
       \/ /\ served.middleware = "WriteHeader"
          /\ served' = [served EXCEPT !.middleware = "returned",
                                      !.writes = Append(@, [by |-> "Timeout",
                                                            op |-> "Write",
                                                            status |-> 0])]
    /\ UNCHANGED <<magic, oitam, req, resp, result, calls, paymentRepo, webhookSecret,
                   anonIn, anonOut, retry, flights, money>>

SpecTimeout == InitTimeout /\ [][ServeHTTP \/ Timeout]_vars

(***************************************************************************)
(* Properties of the flows.  A state in which req is a request shows the   *)
(* request, the answer, the use case's result and the store calls made     *)
(* for it; the stores are as the request left them.                        *)
(***************************************************************************)
\* the redirect use case ran and GetMagicOrder returned the source order
RedirectFetchedOrder ==
    /\ req # NoRequest
    /\ req.route = "/redirect"
    /\ result # NoResponse
    /\ calls[1].op = "GetMagicOrder"
    /\ calls[1].err = Nil

\* C2: whenever the redirect flow has fetched a source order whose status is
\* completed, processing or on-hold, it returns a redirect to the success
\* URL (which the handler answers with 302) and no CreateOITAMOrder call is
\* made for the request.
C2_AlreadyPaidRedirect ==
    (/\ RedirectFetchedOrder
     /\ magic.order.status \in {"completed", "processing", "on-hold"})
    => /\ result.err = Nil
       /\ result.RedirectURL.base = SuccessURL
       /\ resp = Redirect(result.RedirectURL)
       /\ \A i \in 1..Len(calls) : calls[i].op # "CreateOITAMOrder"

C2_Witness ==
    /\ RedirectFetchedOrder
    /\ magic.order.status = "on-hold"
    /\ resp.status = 302
    /\ resp.Location.base = SuccessURL
    /\ Len(calls) = 1

\* C3: the redirect flow calls CreateOITAMOrder only when the fetched source
\* order has status pending and a total above zero; for a fetched order that
\* is neither completed, processing or on-hold nor pending with a positive
\* total it returns an error and makes no CreateOITAMOrder call.
C3_PayabilityGate ==
    RedirectFetchedOrder
    => /\ (\E i \in 1..Len(calls) : calls[i].op = "CreateOITAMOrder")
            => /\ magic.order.status = "pending"
               /\ ParseFloat(magic.order.total).cents > 0
       /\ (/\ magic.order.status \notin {"completed", "processing", "on-hold"}
           /\ ~(/\ magic.order.status = "pending"
                /\ ParseFloat(magic.order.total).cents > 0))
            => /\ result.err # Nil
               /\ resp.status = 500
               /\ \A i \in 1..Len(calls) : calls[i].op # "CreateOITAMOrder"

C3_Witness ==
    /\ RedirectFetchedOrder
    /\ magic.order.status = "cancelled"
    /\ ParseFloat(magic.order.total).cents > 0
    /\ result.err = "order validation failed"
    /\ Len(calls) = 1

\* the return use case ran
ReturnFlowRan ==
    /\ req # NoRequest
    /\ req.route = "/paypal-return"
    /\ result # NoResponse

\* the proxy order a return request names, fetched, shows a status that
\* counts as paid
ProxyConfirms ==
    /\ req.dto.OITAMOrderID # <<>>
    /\ calls # <<>>
    /\ calls[1].op = "GetOITAMOrder"
    /\ calls[1].err = Nil
    /\ \E i \in 1..Len(oitam) :
          /\ Itoa(oitam[i].id) = req.dto.OITAMOrderID
          /\ oitam[i].status \in {"completed", "processing", "on-hold"}

\* the calls of the request at hand that update the payment of the source order
PaymentUpdates == {i \in 1..Len(calls) : calls[i].op = "UpdateMagicOrderPayment"}

\* C4: end to end.  GET /redirect for a pending source order with a positive
\* total and two line items, the stores answering, makes one GetMagicOrder
\* call, then one CreateOITAMOrder call, and is answered 302 with a Location
\* on the checkout path holding the created proxy order's id and key; a
\* later GET /paypal-return with that order id, the proxy order's id, a
\* paymentId and a PayerID, made when the proxy order is processing, is
\* answered 302 to the success URL with order=<original order id>.
C4_EndToEnd ==
    /\ (/\ RedirectFetchedOrder
        /\ magic.order.status = "pending"
        /\ ParseFloat(magic.order.total).cents > 0
        /\ Len(magic.order.line_items) = 2
        /\ magic.order.currency # ""
        /\ \A i \in 1..Len(calls) : calls[i].err = Nil)
       => /\ Len(calls) = 2
          /\ calls[2].op = "CreateOITAMOrder"
          /\ resp.status = 302
          /\ resp.Location.base = CheckoutURL
          /\ resp.Location.id = oitam[Len(oitam)].id
          /\ resp.Location.query.key = oitam[Len(oitam)].order_key
    /\ (/\ ReturnFlowRan
        /\ req.dto.OrderID = OrderID123
        /\ req.dto.PaymentID # <<>>
        /\ req.dto.PayerID # <<>>
        /\ calls # <<>>
        /\ calls[1].op = "GetOITAMOrder"
        /\ calls[1].err = Nil
        /\ \E i \in 1..Len(oitam) :
              /\ Itoa(oitam[i].id) = req.dto.OITAMOrderID
              /\ oitam[i].status = "processing")
       => /\ resp.status = 302
          /\ resp.Location.base = SuccessURL
          /\ resp.Location.query.order = OrderID123

\* C5: when the return request names a proxy order whose fetch succeeds with
\* status completed, processing or on-hold, confirmation by the proxy order
\* comes first even if paymentId or PayerID are given: exactly one
\* UpdateMagicOrderPayment call is made, for the original order id and with
\* the proxy order's transaction id, and the answer is the redirect to the
\* success URL that marks the payment as confirmed (not the fallback's).
C5_ProxyConfirmationFirst ==
    (ReturnFlowRan /\ ProxyConfirms)
    => /\ Cardinality(PaymentUpdates) = 1
       /\ \A i \in PaymentUpdates :
             /\ calls[i].orderID = req.dto.OrderID
             /\ \E j \in 1..Len(oitam) :
                   /\ Itoa(oitam[j].id) = req.dto.OITAMOrderID
                   /\ calls[i].payment.TransactionID = oitam[j].transaction_id
       /\ resp.status = 302
       /\ resp.Location = [base |-> SuccessURL,
                           query |-> [order |-> req.dto.OrderID, payment |-> "confirmed"]]

\* C6: when the proxy order does not confirm the payment (no proxy id, a
\* failed fetch, or a status that does not count as paid) and the return
\* request has a paymentId or a PayerID, the flow updates the source order
\* with a completed payment and redirects to the success URL.
C6_FallbackUpdatesAndSucceeds ==
    (/\ ReturnFlowRan
     /\ req.dto.OrderID # <<>>
     /\ ~ProxyConfirms
     /\ (req.dto.PaymentID # <<>> \/ req.dto.PayerID # <<>>))
    => /\ Cardinality(PaymentUpdates) = 1
       /\ \A i \in PaymentUpdates :
             /\ calls[i].orderID = req.dto.OrderID
             /\ calls[i].payment.Status = "completed"
       /\ resp.status = 302
       /\ resp.Location.base = SuccessURL

C8_CancelAlwaysRedirects ==
    (/\ req # NoRequest
     /\ req.route = "/paypal-cancel"
     /\ result # NoResponse)
    => /\ result = [err |-> Nil,
                    RedirectURL |-> [base |-> CancelURL,
                                     query |-> [order |-> req.dto.OrderID,
                                                payment |-> "cancelled"]],
                    Status |-> "cancelled"]
       /\ resp = Redirect(result.RedirectURL)
       /\ req.dto.OrderID = <<>> => calls = <<>>
       /\ req.dto.OrderID # <<>>
            => /\ Len(calls) = 1
               /\ calls[1].op = "UpdateMagicOrderStatus"
               /\ calls[1].orderID = req.dto.OrderID
               /\ calls[1].status = "cancelled"

C8_Witness ==
    /\ req # NoRequest
    /\ req.route = "/paypal-cancel"
    /\ result # NoResponse
    /\ Len(calls) = 1
    /\ calls[1].err # Nil
    /\ resp.status = 302
    /\ resp.Location.base = CancelURL

\* the webhook use case ran on a PAYMENT.CAPTURE.COMPLETED event
CaptureCompletedRan ==
    /\ req # NoRequest
    /\ req.route = "/webhook"
    /\ result # NoResponse
    /\ req.body.event_type = "PAYMENT.CAPTURE.COMPLETED"

\* the event names order x: by custom_id, or by invoice_id when there is no
\* custom_id
NamesOrder(resource, x) ==
    \/ resource.custom_id = String(x)
    \/ resource.custom_id = Absent /\ resource.invoice_id = String(x)

\* the request made exactly one store call, the update of order x's payment
\* with a completed payment
MarksPaid(x) ==
    /\ Len(calls) = 1
    /\ calls[1].op = "UpdateMagicOrderPayment"
    /\ calls[1].orderID = x
    /\ calls[1].payment.Status = "completed"

\* C9 as stated: a PAYMENT.CAPTURE.COMPLETED event whose resource has
\* custom_id X (or, without custom_id, invoice_id X) and an amount object
\* results in exactly one UpdateMagicOrderPayment call for order X with a
\* completed payment carrying the amount and currency, and in no other
\* store call.
C9_AsStated ==
    \A x \in {OrderID123, OrderID999} :
        (/\ CaptureCompletedRan
         /\ NamesOrder(req.body.resource, x)
         /\ req.body.resource.amount = Amount(String(<<"1", "0", ".", "0", "0">>),
                                              String("USD")))
        => /\ MarksPaid(x)
           /\ calls[1].payment.Amount = Money(1000, "USD")

\* C9: a PAYMENT.CAPTURE.COMPLETED event whose resource has a string id, and
\* custom_id X (or, without custom_id, invoice_id X) with X not empty,
\* results in exactly one store call, UpdateMagicOrderPayment for order X
\* with a completed payment whose transaction id is the resource id.  The
\* payment carries the amount object's value and currency_code: the number
\* that starts value, or zero when value is not a string or starts with no
\* number, and no currency when currency_code is not a string; an event
\* without amount object carries the zero amount.  The body of the update
\* request holds the transaction id and the new status, not the amount.
C9_CaptureCompletedMarksPaid ==
    \A x \in {OrderID123, OrderID999} :
        (/\ CaptureCompletedRan
         /\ req.body.resource.id.t = "string"
         /\ NamesOrder(req.body.resource, x))
        => /\ MarksPaid(x)
           /\ calls[1].payment.TransactionID = req.body.resource.id.v
           /\ req.body.resource.amount = Amount(String(<<"1", "0", ".", "0", "0">>),
                                                String("USD"))
                => calls[1].payment.Amount = Money(1000, "USD")
           /\ req.body.resource.amount = Amount(String(<<"n", "/", "a">>), Absent)
                => calls[1].payment.Amount = Money(0, "")
           /\ req.body.resource.amount = Amount(Number, String("USD"))
                => calls[1].payment.Amount = Money(0, "USD")
           /\ req.body.resource.amount = Absent
                => calls[1].payment.Amount = ZeroMoney
           /\ calls[1].err = Nil
                => /\ magic.order.transaction_id = req.body.resource.id.v
                   /\ magic.order.status = "processing"

C9_Witness ==
    /\ CaptureCompletedRan
    /\ req.body.resource.custom_id = Absent
    /\ req.body.resource.invoice_id = String(OrderID123)
    /\ MarksPaid(OrderID123)
    /\ calls[1].err = Nil
    /\ resp.status = 200

\* C10: POST /webhook (JSON content type, signature accepted) with an event
\* type other than PAYMENT.CAPTURE.COMPLETED, PAYMENT.CAPTURE.DENIED and
\* PAYMENT.CAPTURE.REFUNDED makes no store call and is answered 200 with
\* status "ignored", never with an error status.
C10_UnknownEventIgnored ==
    (/\ req # NoRequest
     /\ req.route = "/webhook"
     /\ req.body.wellformed
     /\ req.body.event_type \notin {"PAYMENT.CAPTURE.COMPLETED", "PAYMENT.CAPTURE.DENIED",
                                     "PAYMENT.CAPTURE.REFUNDED"}
     /\ req.handler = "validating"
          => /\ req.contentType \in {"application/json", "application/json; charset=utf-8"}
             /\ verifyWebhookSignature(req.signature, req.body))
    => /\ calls = <<>>
       /\ resp.status = 200
       /\ resp.body.Status = "ignored"

\* a webhook event of one of the three types the use case acts on has been
\* dispatched and the update it sent to the source store came back with an
\* error
RecognizedUpdateFailed ==
    /\ req # NoRequest
    /\ req.route = "/webhook"
    /\ result # NoResponse
    /\ req.body.event_type \in {"PAYMENT.CAPTURE.COMPLETED", "PAYMENT.CAPTURE.DENIED",
                                 "PAYMENT.CAPTURE.REFUNDED"}
    /\ calls # <<>>
    /\ calls[1].err # Nil

\* C11: whenever the update of the source store issued for a
\* PAYMENT.CAPTURE.COMPLETED, DENIED or REFUNDED event returns an error,
\* POST /webhook is answered 500.
C11_FailedProcessingAnswers500 ==
    RecognizedUpdateFailed => resp.status = 500

\* a POST /webhook with a JSON content type has been answered by
\* PaymentHandler.WebhookHandler
SignatureChecked ==
    /\ req # NoRequest
    /\ req.route = "/webhook"
    /\ req.handler = "validating"
    /\ req.contentType \in {"application/json", "application/json; charset=utf-8"}

\* WEBHOOK_SECRET is set to a secret of the deployment
SecretConfigured == webhookSecret \notin {"", "default-webhook-secret"}

\* C12: when a webhook secret is configured, a POST /webhook whose signature
\* header is missing or is not the HMAC-SHA256 of the raw body under the
\* secret is answered 401 and no store call is made for it; when no secret
\* is configured the signature check is skipped and the event is processed
\* (a well-formed event reaches the webhook use case).
C12_SignatureGate ==
    SignatureChecked
    => /\ (SecretConfigured /\ req.signature # Sign(webhookSecret, req.body))
            => /\ resp = ErrorResponse(401, "Invalid signature")
               /\ calls = <<>>
       /\ (~SecretConfigured /\ req.body.wellformed
            /\ req.body.event_type = "PAYMENT.CAPTURE.COMPLETED")
            => /\ resp.status # 401
               /\ result # NoResponse

\* C13: a POST /webhook with Content-Type application/json and a well-formed
\* JSON body for a PAYMENT.CAPTURE.COMPLETED event (string id, custom_id
\* naming the order), the signature check passing or skipped and the update
\* of the source store succeeding, is parsed, dispatched to the webhook use
\* case and answered 200 with a JSON object that holds "status".
C13_WebhookAccepted ==
    (/\ SignatureChecked
     /\ req.contentType = "application/json"
     /\ verifyWebhookSignature(req.signature, req.body)
     /\ req.body.wellformed
     /\ req.body.event_type = "PAYMENT.CAPTURE.COMPLETED"
     /\ req.body.resource.id = String(CaptureID)
     /\ req.body.resource.custom_id = String(OrderID123)
     /\ \A i \in 1..Len(calls) : calls[i].err = Nil)
    => /\ result # NoResponse
       /\ resp.status = 200
       /\ "Status" \in DOMAIN resp.body

(***************************************************************************)
(* Properties of executeWithRetry (SpecRetry).                             *)
(***************************************************************************)
\* a run of executeWithRetry has returned and every attempt it made was
\* answered with HTTP 500
AllAnswered500 ==
    /\ retry.state = "returned"
    /\ \A i \in 1..Len(retry.answers) :
          retry.answers[i].kind = "response" /\ retry.answers[i].status = 500

\* C14 as stated: with RetryAttempts=3, a store-client call whose every
\* attempt is answered HTTP 500 makes exactly 3 HTTP attempts in total and
\* then returns an error (the request's context not being done meanwhile).
C14_AsStated ==
    (AllAnswered500 /\ retry.maxRetries = 3 /\ retry.err # "context canceled")
    => /\ Len(retry.answers) = 3
       /\ retry.err # Nil

\* C14: with RetryAttempts=N, a store-client call whose every attempt is
\* answered HTTP 500, the request's context not being done in the meantime,
\* makes exactly N+1 HTTP attempts in total (the first one and N retries: 4
\* for RetryAttempts=3) and then returns the error of the last answer.
C14_AttemptsOnServerError ==
    (AllAnswered500 /\ retry.err # "context canceled")
    => /\ Len(retry.answers) = retry.maxRetries + 1
       /\ retry.maxRetries = 3 => Len(retry.answers) = 4
       /\ retry.err \in {"API request failed", "failed to create order",
                         "failed to update order"}

C14_Witness ==
    /\ AllAnswered500
    /\ retry.maxRetries = 3
    /\ retry.op = "GetMagicOrder"
    /\ Len(retry.answers) = 4
    /\ retry.err = "API request failed"

\* the first attempt of the run under way (or just returned) was answered
\* 404, 401 or 403
FirstAnswerTerminal ==
    /\ retry.state \in {"running", "returned"}
    /\ retry.answers # <<>>
    /\ retry.answers[1].kind = "response"
    /\ retry.answers[1].status \in {404, 401, 403}

\* C15: for every configured retry count, a store-client call whose first
\* attempt is answered 404, 401 or 403 makes exactly one HTTP attempt and
\* returns an error; for an order fetch answered 404 the error is the "not
\* found" error, and the fetch returns no order with it.
C15_TerminalStatusNotRetried ==
    FirstAnswerTerminal
    => /\ retry.state = "returned"
       /\ Len(retry.answers) = 1
       /\ retry.err # Nil
       /\ (retry.op = "GetMagicOrder" /\ retry.answers[1].status = 404)
            => /\ retry.err = "order not found"
               /\ GetMagicOrder(OrderID123, "ok", 1) = [err |-> "order not found"]

C15_Witness ==
    /\ FirstAnswerTerminal
    /\ retry.maxRetries = 3
    /\ retry.op = "GetMagicOrder"
    /\ retry.answers = <<[kind |-> "response", status |-> 404, decodes |-> TRUE]>>
    /\ retry.state = "returned"
    /\ retry.err = "order not found"

(***************************************************************************)
(* Properties of the handlers' input checks and answers (Spec).            *)
(***************************************************************************)
\* PaymentHandler.PaymentRedirect has answered a GET /redirect whose orderId
\* is missing or is not 1 to 50 letters and digits
RedirectWithBadOrderID ==
    /\ req # NoRequest
    /\ req.route = "/redirect"
    /\ req.handler = "validating"
    /\ \/ req.query.orderId = <<>>
       \/ Len(req.query.orderId) > 50
       \/ \E i \in 1..Len(req.query.orderId) :
             req.query.orderId[i] \notin Letters \cup DigitSet

\* C16 as stated: a GET /redirect request whose orderId is missing or is not
\* 1 to 50 alphanumeric characters is answered 400, and no call to either
\* store is made for it.
C16_AsStated ==
    RedirectWithBadOrderID
    => /\ resp.status = 400
       /\ calls = <<>>

\* C16: a GET /redirect request whose orderId is missing or is not 1 to 50
\* alphanumeric characters makes no call to either store; it is answered
\* 400 when its Referer header is empty or names an allowed host, and 403
\* (the referrer is checked first) otherwise.
C16_BadOrderIDRejected ==
    RedirectWithBadOrderID
    => /\ calls = <<>>
       /\ result = NoResponse
       /\ isValidReferrer(req.referrer) => resp.status = 400
       /\ ~isValidReferrer(req.referrer) => resp = ErrorResponse(403, "Invalid referrer")

C16_Witness ==
    /\ RedirectWithBadOrderID
    /\ req.query.orderId = <<"1", "2", "-", "3">>
    /\ req.referrer = NoReferrer
    /\ resp = ErrorResponse(400, "Invalid order ID format")
    /\ calls = <<>>

\* C17: for every /redirect, /paypal-return and /paypal-cancel request with
\* well-formed input (one the handler passes on to its flow), and for every
\* outcome of the store calls made for it, the response is a 302 redirect
\* (to the checkout, success, cancel or error URL) and never a 5xx response.
C17_AlwaysBrowserRedirect ==
    (/\ req # NoRequest
     /\ req.route \in {"/redirect", "/paypal-return", "/paypal-cancel"}
     /\ result # NoResponse)
    => /\ resp.status = 302
       /\ resp.Location.base \in {CheckoutURL, SuccessURL, CancelURL, ErrorURL}

\* GET /api/v1/order/:id or GET /api/v1/status/:id has been answered
APIRequestAnswered ==
    /\ req # NoRequest
    /\ req.handler = "api"
    /\ req.route \in {"/api/v1/order/:id", "/api/v1/status/:id"}

\* C18: GET /api/v1/order/:id and GET /api/v1/status/:id answer 404 when the
\* source store reports the order absent, and 500 rather than 404 when the
\* call to the source store fails for another reason (5xx after the retries
\* are used up, or a connection failure).
C18_NotFoundVersusUpstream ==
    APIRequestAnswered
    => /\ calls[1].err = "order not found" => resp.status = 404
       /\ calls[1].err = "API request failed" => resp.status = 500

(***************************************************************************)
(* Properties of redirect requests in flight at once (SpecRace).           *)
(***************************************************************************)
\* flight p has returned from Execute
FlightDone(p) == flights[p].pc = "done"

\* flight p has returned, and the order it fetched is payable: pending with
\* a positive total (CanBeProcessed), with a currency and a line item
FlightPayable(p) ==
    /\ FlightDone(p)
    /\ flights[p].fetched.err = Nil
    /\ ValidateOrderForPayment(flights[p].fetched.order) = Nil

\* the flights whose CreateOITAMOrder call the processing store answered
FlightsCreated ==
    {p \in 1..MaxFlights : /\ FlightDone(p)
                     /\ Len(flights[p].calls) = 2
                     /\ flights[p].calls[2].err # "API request failed"}

C20_CurrencyGuard ==
    (/\ money.state = "added"
     /\ money.m.Currency # money.other.Currency)
    => /\ money.out.err # Nil
       /\ money.out.sum = ZeroMoney

\* 0.01 USD and 0.02 EUR were added
C20_Witness ==
    /\ money.state = "added"
    /\ money.m = Money(1, "USD")
    /\ money.other = Money(2, "EUR")
    /\ money.out.err = "cannot add different currencies"
    /\ money.out.sum = ZeroMoney

(***************************************************************************)
(* Properties of executeWithRetry after an answered attempt (SpecRetry).   *)
(***************************************************************************)
\* the attempts of the CreateOITAMOrder call under way that the store
\* answered 201 Created
CreatedAnswers ==
    {i \in 1..Len(retry.answers) : /\ retry.answers[i].kind = "response"
                                   /\ retry.answers[i].status = 201}

\* C21: one CreateOITAMOrder call creates at most one order on the
\* processing store, and once an attempt's POST has been answered 201
\* Created the retry loop makes no further attempt for the call, whatever the
\* handler makes of the response.
C21_NoAttemptAfterCreated ==
    (retry.state \in {"running", "returned"} /\ retry.op = "CreateOITAMOrder")
    => /\ Cardinality(CreatedAnswers) <= 1
       /\ \A i \in CreatedAnswers : i = Len(retry.answers)

\* C22: a store-client call starts another attempt only after a connection
\* failure or a 5xx response; a 4xx response ends the call after that
\* attempt with the API error of the call.
C22_RetryOnlyOnFailureOr5xx ==
    retry.state \in {"running", "returned"}
    => /\ \A i \in 1..(Len(retry.answers) - 1) :
             \/ retry.answers[i].kind = "error"
             \/ retry.answers[i].status >= 500
       /\ \A i \in 1..Len(retry.answers) :
             (retry.answers[i].kind = "response" /\ retry.answers[i].status = 400)
             => /\ retry.state = "returned"
                /\ i = Len(retry.answers)
                /\ retry.err \in {"API request failed", "failed to create order",
                                  "failed to update order"}

RedirectCreated ==
    /\ req # NoRequest
    /\ req.route = "/redirect"
    /\ result # NoResponse
    /\ result.err = Nil
    /\ result.Status = "redirect_created"

\* the request PayPalReturn makes of the query of a return URL u that the
\* customer follows as it is
FollowedReturnRequest(u) ==
    [OrderID       |-> sanitizeInput(u.query.order_id),
     OITAMOrderID  |-> IF "oitam_order_id" \in DOMAIN u.query
                       THEN sanitizeInput(u.query.oitam_order_id) ELSE <<>>,
     Status        |-> IF "status" \in DOMAIN u.query THEN u.query.status ELSE "",
     PaymentID     |-> <<>>,
     PayerID       |-> <<>>,
     TransactionID |-> <<>>]

\* C24: the return URL that the redirect flow embeds in the checkout URL is
\* accepted by the request validation of the /paypal-return handler.
C24_ReturnURLAccepted ==
    RedirectCreated
    => validatePaymentReturnRequest(
           FollowedReturnRequest(result.RedirectURL.query.return_url))

\* the source order is as UpdateMagicOrderPayment leaves it for a completed
\* payment (the return flow and the PAYMENT.CAPTURE.COMPLETED webhook call
\* it): status processing, paid by paypal; no order starts out like that
MarkedPaid ==
    /\ magic.present
    /\ magic.order.status = "processing"
    /\ magic.order.payment_method = "paypal"

\* C25: once the source order has been marked paid by the return flow or by
\* a PAYMENT.CAPTURE.COMPLETED webhook, no later request (a /paypal-cancel
\* for the same order id in particular) changes its status to cancelled.
C25_PaidIsTerminal ==
    [][MarkedPaid => magic'.order.status # "cancelled"]_vars

(***************************************************************************)
(* Properties of the anonymization transform, continued (SpecAnon).        *)
(***************************************************************************)
\* the source orders that differ from o at most in the names, product and
\* variation ids of the line items, the customer note, the coupon lines and
\* the billing and shipping fields other than the country
SourceVariants(o) ==
    {[o EXCEPT !.CustomerNote = note,
               !.CouponLines = coupons,
               !.Billing = [b EXCEPT !.Country = o.Billing.Country],
               !.Shipping = [sh EXCEPT !.Country = o.Shipping.Country],
               !.LineItems = [i \in 1..Len(o.LineItems) |->
                                 [o.LineItems[i] EXCEPT !.Name = name,
                                                        !.ProductID = pid,
                                                        !.VariationID = vid]]] :
        note \in {"ring twice", "leave at the door"},
        coupons \in {<<>>, <<[ID |-> 32, Code |-> "WINTER", Discount |-> Money(250, "USD"),
                               DiscountTax |-> Money(0, "USD"), MetaData |-> <<>>]>>},
        b \in {o.Billing, CustomerShipping},
        sh \in {o.Shipping, CustomerBilling("PL")},
        name \in {<<"T", "e", "a">>, <<"K", "e", "y">>},
        pid \in {501, 777},
        vid \in {0, 7}}

\* C26: the payload the redirect flow sends to the processing store
\* (convertToOITAMOrder of the anonymized order) is the same for any two
\* source orders that differ only in line-item names, product or variation
\* ids, customer note, coupon lines, or billing and shipping fields other
\* than the country: none of these values is in the payload, the line-item
\* meta data included.
C26_PayloadIndependent ==
    \A k \in 1..Len(anonOut) :
        \A v \in SourceVariants(anonIn), now \in Clock :
            convertToOITAMOrder(ToAnonymousOrder(v, anonOut[k].DateCreated), now)
                = convertToOITAMOrder(anonOut[k], now)

\* an order with two different line items and a coupon was anonymized
C26_Witness ==
    /\ Len(anonOut) >= 1
    /\ Len(anonIn.LineItems) = 2
    /\ anonIn.LineItems[1].Name # anonIn.LineItems[2].Name
    /\ anonIn.LineItems[1].ProductID # anonIn.LineItems[2].ProductID
    /\ anonIn.CouponLines # <<>>
    /\ anonIn.CustomerNote # ""

\* C28 as stated: two calls of ToAnonymousOrder on equal source orders
\* return proxy orders that are equal in every field.
C28_AsStated ==
    \A i \in 1..Len(anonOut), j \in 1..Len(anonOut) : anonOut[i] = anonOut[j]

\* C28: ToAnonymousOrder returns a proxy order for every source order, and
\* two calls of it on equal source orders return proxy orders that are equal
\* in every field but DateCreated, which is the time of the call.
C28_DeterministicButForTime ==
    \A i \in 1..Len(anonOut), j \in 1..Len(anonOut) :
        /\ anonOut[i].Status = "pending"
        /\ [anonOut[i] EXCEPT !.DateCreated = 0] = [anonOut[j] EXCEPT !.DateCreated = 0]

\* the same order was anonymized twice, at different times
C28_Witness ==
    /\ Len(anonOut) = 2
    /\ anonOut[1].DateCreated # anonOut[2].DateCreated
    /\ anonOut[1].Number = anonIn.Number

(***************************************************************************)
(* Properties of the redirect flow, continued (Spec).                      *)
(***************************************************************************)
\* the redirect flow fetched a source order that is pending with a total
\* above zero
RedirectFetchedPending ==
    /\ RedirectFetchedOrder
    /\ magic.order.status = "pending"
    /\ ParseFloat(magic.order.total).cents > 0

\* C27 as stated: every fetched source order with status pending and a
\* total above zero passes the payability check, and the flow goes on to
\* call CreateOITAMOrder.
C27_AsStated ==
    RedirectFetchedPending
    => \E i \in 1..Len(calls) : calls[i].op = "CreateOITAMOrder"

\* C27: every fetched source order with status pending, a total above zero,
\* a currency and at least one line item passes the payability check: the
\* flow anonymizes it and calls CreateOITAMOrder, and the only error it can
\* still return is that of the create call.
C27_PendingWithCurrencyAndItems ==
    (/\ RedirectFetchedPending
     /\ magic.order.currency # ""
     /\ magic.order.line_items # <<>>)
    => /\ Len(calls) = 2
       /\ calls[2].op = "CreateOITAMOrder"
       /\ result.err \in {Nil, "failed to create payment order"}

\* a pending order of two line items went through to the create call
C27_Witness ==
    /\ RedirectFetchedPending
    /\ magic.order.currency = "USD"
    /\ Len(magic.order.line_items) = 2
    /\ Len(calls) = 2
    /\ calls[2].op = "CreateOITAMOrder"
    /\ calls[2].err = Nil
    /\ result.err = Nil

\* the redirect flow ran and its CreateOITAMOrder call succeeded
RedirectProxyCreated ==
    /\ req # NoRequest
    /\ req.route = "/redirect"
    /\ result # NoResponse
    /\ \E i \in 1..Len(calls) : calls[i].op = "CreateOITAMOrder" /\ calls[i].err = Nil

TimedOutAndAnswered ==
    /\ served.state = "serving"
    /\ served.middleware = "returned"
    /\ \E i \in 1..Len(served.writes) : served.writes[i].by = "Timeout"

\* C29: when the request's deadline passes before the wrapped handler has
\* finished, the response is the timeout response (the status sent, that of
\* the first WriteHeader, is 408) and it is the only one written: no call
\* of the handler goroutine on the response writer follows a call made for
\* the timeout response, or falls between the two.
C29_OnlyTimeoutResponse ==
    TimedOutAndAnswered
    => /\ served.writes[1].status = 408
       /\ \A i \in 1..Len(served.writes), j \in 1..Len(served.writes) :
             (served.writes[i].by = "Timeout" /\ i < j) => served.writes[j].by = "Timeout"

====
